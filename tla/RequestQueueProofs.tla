------------------------- MODULE RequestQueueProofs -------------------------
(***************************************************************************)
(* Theorems about RequestQueue, for any set of requests, any policies and  *)
(* any concurrency limit.  IInv is inductive; everything else follows.     *)
(***************************************************************************)
EXTENDS RequestQueue, SequenceTheorems, FiniteSetTheorems, TLAPS

\* A sequence without repetitions.
Distinct(s) == \A i, j \in DOMAIN s : s[i] = s[j] => i = j

\* Removing an entry of a sequence without repetitions removes exactly that
\* element, and leaves a sequence without repetitions.
LEMMA RemoveAtFacts ==
    ASSUME NEW S, NEW s \in Seq(S), Distinct(s), NEW i \in DOMAIN s
    PROVE  /\ RemoveAt(s, i) \in Seq(S)
           /\ Range(RemoveAt(s, i)) = Range(s) \ {s[i]}
           /\ Distinct(RemoveAt(s, i))
<1> DEFINE n == Len(s)
           t == RemoveAt(s, i)
<1>1. n \in Nat /\ DOMAIN s = 1 .. n /\ i \in 1 .. n
  BY LenProperties
<1>2. /\ SubSeq(s, 1, i - 1) \in Seq(S)
      /\ Len(SubSeq(s, 1, i - 1)) = i - 1
      /\ \A k \in 1 .. i - 1 : SubSeq(s, 1, i - 1)[k] = s[k]
  BY <1>1, SubSeqProperties, ElementOfSeq
<1>3. /\ SubSeq(s, i + 1, n) \in Seq(S)
      /\ Len(SubSeq(s, i + 1, n)) = n - i
      /\ \A k \in 1 .. n - i : SubSeq(s, i + 1, n)[k] = s[k + i]
  BY <1>1, SubSeqProperties, ElementOfSeq
<1>4. /\ t \in Seq(S)
      /\ Len(t) = n - 1
      /\ \A k \in 1 .. n - 1 : t[k] = IF k < i THEN s[k] ELSE s[k + 1]
  <2> DEFINE a == SubSeq(s, 1, i - 1)
             b == SubSeq(s, i + 1, n)
  <2>1. t = a \o b
    BY DEF RemoveAt
  <2> HIDE DEF a, b, t
  <2>2. /\ a \o b \in Seq(S)
        /\ Len(a \o b) = Len(a) + Len(b)
        /\ \A k \in 1 .. Len(a) + Len(b) :
              (a \o b)[k] = IF k <= Len(a) THEN a[k] ELSE b[k - Len(a)]
    BY <1>2, <1>3, ConcatProperties DEF a, b
  <2>3. Len(a) = i - 1 /\ Len(b) = n - i
    BY <1>2, <1>3 DEF a, b
  <2>4. (i - 1) + (n - i) = n - 1
    BY <1>1
  <2>5. t \in Seq(S) /\ Len(t) = n - 1
    BY <2>1, <2>2, <2>3, <2>4
  <2>6. \A k \in 1 .. n - 1 : t[k] = IF k <= i - 1 THEN a[k] ELSE b[k - (i - 1)]
    BY <2>1, <2>2, <2>3, <2>4
  <2>7. ASSUME NEW k \in 1 .. n - 1
        PROVE  t[k] = IF k < i THEN s[k] ELSE s[k + 1]
    <3>1. CASE k < i
      <4>1. k \in 1 .. i - 1 /\ k <= i - 1
        BY <1>1, <3>1
      <4>2. a[k] = s[k]
        BY <1>2, <4>1 DEF a
      <4> QED BY <2>6, <3>1, <4>1, <4>2
    <3>2. CASE ~(k < i)
      <4>1. /\ k - (i - 1) \in 1 .. n - i /\ (k - (i - 1)) + i = k + 1
            /\ ~(k <= i - 1)
        BY <1>1, <3>2
      <4>2. b[k - (i - 1)] = s[k + 1]
        BY <1>3, <4>1 DEF b
      <4> QED BY <2>6, <3>2, <4>1, <4>2
    <3> QED BY <3>1, <3>2
  <2> QED BY <2>5, <2>7
<1>5. DOMAIN t = 1 .. n - 1
  BY <1>1, <1>4
<1> HIDE DEF t
<1> DEFINE p(k) == IF k < i THEN k ELSE k + 1
<1>6. ASSUME NEW k \in 1 .. n - 1
      PROVE  p(k) \in 1 .. n /\ p(k) # i /\ t[k] = s[p(k)]
  BY <1>1, <1>4
<1>7. ASSUME NEW j \in 1 .. n, j # i
      PROVE  \E k \in 1 .. n - 1 : t[k] = s[j]
  <2>1. CASE j < i
    <3>1. j \in 1 .. n - 1 /\ p(j) = j
      BY <1>1, <2>1
    <3> QED BY <1>6, <3>1
  <2>2. CASE j > i
    <3>1. j - 1 \in 1 .. n - 1 /\ p(j - 1) = j
      BY <1>1, <2>2
    <3> QED BY <1>6, <3>1
  <2> QED BY <1>1, <1>7, <2>1, <2>2
<1>8. Distinct(t)
  <2> SUFFICES ASSUME NEW j \in 1 .. n - 1, NEW k \in 1 .. n - 1, t[j] = t[k]
               PROVE  j = k
    BY <1>5 DEF Distinct
  <2>1. p(j) \in DOMAIN s /\ p(k) \in DOMAIN s /\ s[p(j)] = s[p(k)]
    BY <1>1, <1>6
  <2>2. p(j) = p(k)
    BY <2>1 DEF Distinct
  <2> QED BY <1>1, <2>2
<1>9. ASSUME NEW x \in Range(t) PROVE x \in Range(s) \ {s[i]}
  <2>1. PICK k \in 1 .. n - 1 : x = t[k]
    BY <1>5 DEF Range
  <2>2. p(k) \in DOMAIN s /\ p(k) # i /\ x = s[p(k)]
    BY <1>1, <1>6, <2>1
  <2> HIDE DEF p
  <2> QED BY <1>1, <2>2 DEF Range, Distinct
<1>10. ASSUME NEW x \in Range(s) \ {s[i]} PROVE x \in Range(t)
  <2>1. PICK j \in 1 .. n : x = s[j] /\ j # i
    BY <1>1 DEF Range
  <2>2. PICK k \in 1 .. n - 1 : t[k] = s[j]
    BY <1>7, <2>1
  <2> QED BY <1>5, <2>1, <2>2 DEF Range
<1> QED BY <1>4, <1>8, <1>9, <1>10 DEF t

-----------------------------------------------------------------------------
(* The queue's array.                                                      *)

\* removeRequest:decrementCounter: takes exactly its request out of the array.
LEMMA RemoveFromQueueFacts ==
    ASSUME TypeOK, EntriesDistinct, NEW r \in Queued
    PROVE  /\ RemoveFromQueue(r) \in Seq(Requests)
           /\ Range(RemoveFromQueue(r)) = Queued \ {r}
           /\ Distinct(RemoveFromQueue(r))
<1>1. PositionOf(r) \in DOMAIN requests /\ requests[PositionOf(r)] = r
  BY DEF PositionOf, Queued, Range
<1>2. requests \in Seq(Requests) /\ Distinct(requests)
  BY DEF TypeOK, EntriesDistinct, Distinct
<1> QED BY <1>1, <1>2, RemoveAtFacts DEF RemoveFromQueue, Queued

\* addRequest: puts its request into the array, at most once.
LEMMA AddToQueueFacts ==
    ASSUME TypeOK, EntriesDistinct, NEW r \in Requests
    PROVE  /\ AddToQueue(r) \in Seq(Requests)
           /\ Range(AddToQueue(r)) = Queued \cup {r}
           /\ Distinct(AddToQueue(r))
           /\ AddToQueue(r) # <<>>
<1>1. requests \in Seq(Requests) /\ Distinct(requests)
  BY DEF TypeOK, EntriesDistinct, Distinct
<1>2. CASE r \in Queued
  BY <1>1, <1>2 DEF AddToQueue, Queued, Range
<1>3. CASE r \notin Queued
  <2> DEFINE t == Append(requests, r)
             n == Len(requests)
  <2>1. /\ t \in Seq(Requests) /\ t # <<>> /\ Len(t) = n + 1
        /\ \A i \in 1 .. n : t[i] = requests[i]
        /\ t[n + 1] = r
    BY <1>1, AppendProperties
  <2>2. n \in Nat /\ DOMAIN requests = 1 .. n /\ DOMAIN t = 1 .. n + 1
    BY <1>1, <2>1, LenProperties
  <2> HIDE DEF t
  <2>3. \A i \in DOMAIN requests : requests[i] # r
    BY <1>3 DEF Queued, Range
  <2>4. Distinct(t)
    BY <1>1, <2>1, <2>2, <2>3 DEF Distinct
  <2>5. Range(t) = Queued \cup {r}
    BY <2>1, <2>2 DEF Queued, Range
  <2> QED BY <1>3, <2>1, <2>4, <2>5 DEF AddToQueue, t
<1> QED BY <1>2, <1>3

\* The queue holds requests if and only if its array is not empty.
LEMMA QueuedFacts ==
    ASSUME TypeOK
    PROVE  /\ Queued \subseteq Requests
           /\ requests = <<>> => Queued = {}
           /\ \A i \in DOMAIN requests : requests[i] \in Queued
<1>1. requests \in Seq(Requests)
  BY DEF TypeOK
<1>2. Queued \subseteq Requests
  BY <1>1, RangeOfSeq DEF Queued
<1> QED BY <1>2 DEF Queued, Range

-----------------------------------------------------------------------------
(* The inductive invariant.                                                *)

\* A queue that has just been built satisfies the invariant.
LEMMA InitIInv == Init => IInv
<1> SUFFICES ASSUME Init PROVE IInv
  OBVIOUS
<1>1. /\ requests \in Seq(Requests) /\ DOMAIN requests = {} /\ Queued = {}
  BY DEF Init, Queued, Range
<1>2. IsFiniteSet(isLoading) /\ Cardinality(isLoading) = 0
  BY FS_EmptySet DEF Init
<1>3. TypeOK
  BY <1>1 DEF Init, TypeOK, Outcomes, Hosts
<1>4. LimitRespected
  BY <1>2, QueueAssumption DEF Init, LimitRespected
<1>5. LoadingIsQueued /\ EntriesDistinct /\ ObserversLoad /\ AnsweredHasLeft /\ NoLostWakeup
  BY <1>1 DEF Init, LoadingIsQueued, EntriesDistinct, ObserversLoad, AnsweredHasLeft,
               NoLostWakeup, Answers
<1> QED
  BY <1>2, <1>3, <1>4, <1>5 DEF IInv

\* Putting one more request on the wire, or taking one off, moves the number of
\* loading requests by one.
LEMMA LoadingCardinality ==
    ASSUME IsFiniteSet(isLoading), NEW r
    PROVE  /\ Cardinality(isLoading) \in Nat
           /\ IsFiniteSet(isLoading \cup {r}) /\ IsFiniteSet(isLoading \ {r})
           /\ r \notin isLoading =>
                 Cardinality(isLoading \cup {r}) = Cardinality(isLoading) + 1
           /\ Cardinality(isLoading \ {r}) =
                 IF r \in isLoading THEN Cardinality(isLoading) - 1
                                    ELSE Cardinality(isLoading)
BY FS_AddElement, FS_RemoveElement, FS_CardinalityType

\* A request comes off the wire, with or without its place in the count being
\* given back: the counter still covers what is loading.
LEMMA UnloadKeepsLimit ==
    ASSUME IInv, NEW r, isLoading' = isLoading \ {r},
           loadingCount' = loadingCount \/ (r \in isLoading /\ loadingCount' = loadingCount - 1)
    PROVE  loadingCount' \in Nat /\ IsFiniteSet(isLoading)' /\ LimitRespected'
<1>1. /\ Cardinality(isLoading) \in Nat /\ loadingCount \in Nat
      /\ Cardinality(isLoading) <= loadingCount /\ loadingCount <= Limit
  BY LoadingCardinality DEF IInv, TypeOK, LimitRespected
<1>2. /\ IsFiniteSet(isLoading')
      /\ Cardinality(isLoading') = IF r \in isLoading THEN Cardinality(isLoading) - 1
                                                     ELSE Cardinality(isLoading)
  BY LoadingCardinality DEF IInv
<1>3. r \in isLoading => Cardinality(isLoading) # 0
  BY FS_EmptySet DEF IInv
<1> QED BY <1>1, <1>2, <1>3, QueueAssumption DEF LimitRespected

\* What a delegate may be told is an outcome.
LEMMA ToldType ==
    ASSUME TypeOK, NEW r, NEW o \in Outcomes
    PROVE  [told EXCEPT ![r] = o] \in [Requests -> Outcomes]
BY DEF TypeOK

\* Whether a handler leaves the timer alone or calls loadNextInQueue, a timer the
\* queue knows is scheduled afterwards.
LEMMA TimerType ==
    ASSUME TypeOK, UNCHANGED <<timerVars, pass>> \/ LoadNextInQueue(suspended, timers)
    PROVE  /\ queueTimer' \in BOOLEAN /\ pass' \in BOOLEAN /\ timers' \in Nat
           /\ queueTimer' => timers' > 0
<1>1. CASE UNCHANGED <<timerVars, pass>>
  BY <1>1 DEF TypeOK, timerVars
<1>2. CASE LoadNextInQueue(suspended, timers)
  <2>1. suspended \in BOOLEAN /\ timers \in Nat
    BY DEF TypeOK
  <2>2. CASE suspended = TRUE
    BY <1>2, <2>1, <2>2 DEF LoadNextInQueue
  <2>3. CASE suspended = FALSE
    BY <1>2, <2>1, <2>3 DEF LoadNextInQueue
  <2> QED BY <2>1, <2>2, <2>3
<1> QED BY <1>1, <1>2

\* Taking a request out of the array, off the wire, and off the list of
\* observers, and giving its delegate the last word (its answer, or nothing any
\* more), keeps the invariant, provided the count is right and somebody will
\* look at the queue again.
LEMMA LeaveKeepsIInv ==
    ASSUME IInv, NEW r \in Queued, NEW o \in Answers \cup {"detached"},
           requests' = RemoveFromQueue(r),
           isLoading' = isLoading \ {r},
           observing' = observing \ {r},
           told' = [told EXCEPT ![r] = o],
           \/ loadingCount' = loadingCount
           \/ r \in isLoading /\ loadingCount' = loadingCount - 1,
           UNCHANGED <<suspended, submitted, bgTask, appVars, reach>>,
           toCancel' \subseteq toCancel,
           r \notin tell,
           \/ UNCHANGED <<timerVars, pass>>
           \/ LoadNextInQueue(suspended, timers)
    PROVE  IInv'
<1> USE DEF appVars, timerVars
<1>1. /\ requests' \in Seq(Requests) /\ Queued' = Queued \ {r}
      /\ Distinct(requests') /\ r \in Requests
  BY RemoveFromQueueFacts, QueuedFacts DEF IInv, Queued
<1>2. loadingCount' \in Nat /\ IsFiniteSet(isLoading)' /\ LimitRespected'
  BY UnloadKeepsLimit
<1>3. /\ queueTimer' \in BOOLEAN /\ pass' \in BOOLEAN /\ timers' \in Nat
      /\ queueTimer' => timers' > 0
  BY TimerType DEF IInv
<1>4. told' \in [Requests -> Outcomes]
  BY ToldType DEF IInv, Outcomes, Answers
<1>5. TypeOK'
  BY <1>1, <1>2, <1>3, <1>4 DEF IInv, TypeOK
<1>6. LoadingIsQueued' /\ EntriesDistinct' /\ ObserversLoad'
  BY <1>1 DEF IInv, LoadingIsQueued, EntriesDistinct, ObserversLoad, Distinct
<1>7. AnsweredHasLeft'
  <2>1. told'[r] = o /\ \A q \in Requests \ {r} : told'[q] = told[q]
    BY <1>1 DEF IInv, TypeOK
  <2>2. r \in submitted
    BY DEF IInv, AnsweredHasLeft
  <2> QED BY <1>1, <2>1, <2>2 DEF IInv, AnsweredHasLeft
<1>8. NoLostWakeup'
  <2>1. requests # <<>>
    BY QueuedFacts DEF IInv
  <2> QED BY <2>1 DEF IInv, TypeOK, NoLostWakeup, LoadNextInQueue
<1> QED BY <1>2, <1>5, <1>6, <1>7, <1>8 DEF IInv

\* Taking a request off the wire without removing it, as the background policies
\* do, keeps the invariant.
LEMMA UnloadKeepsIInv ==
    ASSUME IInv, NEW r \in Requests,
           isLoading' = isLoading \ {r},
           observing' = observing \ {r},
           tell' = tell \ {r},
           bgTask' \subseteq bgTask,
           NEW o \in Outcomes \ (Answers \cup {"detached"}),
           told' = told \/ told' = [told EXCEPT ![r] = o],
           UNCHANGED <<requests, loadingCount, suspended, toCancel, submitted,
                       appState, tellQueue, reach>>,
           UNCHANGED <<timerVars, pass>> \/ LoadNextInQueue(suspended, timers)
    PROVE  IInv'
<1> USE DEF timerVars
<1>1. IsFiniteSet(isLoading)' /\ LimitRespected'
  BY UnloadKeepsLimit
<1>2. Queued' = Queued
  BY DEF Queued
<1>3. told' \in [Requests -> Outcomes]
  BY ToldType DEF IInv, TypeOK
<1>4. /\ queueTimer' \in BOOLEAN /\ pass' \in BOOLEAN /\ timers' \in Nat
      /\ queueTimer' => timers' > 0
  BY TimerType DEF IInv
<1>5. TypeOK'
  BY <1>3, <1>4 DEF IInv, TypeOK
<1>6. LoadingIsQueued' /\ EntriesDistinct' /\ ObserversLoad'
  BY <1>2 DEF IInv, LoadingIsQueued, EntriesDistinct, ObserversLoad
<1>7. AnsweredHasLeft'
  <2>1. \A q \in Requests : told'[q] = told[q] \/ told'[q] \notin Answers \cup {"detached"}
    BY DEF IInv, TypeOK
  <2> QED BY <1>2, <2>1 DEF IInv, AnsweredHasLeft
<1>8. NoLostWakeup'
  BY DEF IInv, TypeOK, NoLostWakeup, LoadNextInQueue
<1> QED BY <1>1, <1>5, <1>6, <1>7, <1>8 DEF IInv

-----------------------------------------------------------------------------
(* Every step preserves the invariant.                                     *)

\* A step that leaves the array, the counter, what is loading and what was told
\* alone, and treats the timer properly, keeps most of the invariant.
LEMMA QueueUntouched ==
    ASSUME IInv, UNCHANGED <<requests, loadingCount, isLoading, told, submitted>>
    PROVE  /\ Queued' = Queued
           /\ IsFiniteSet(isLoading)' /\ LimitRespected'
           /\ LoadingIsQueued' /\ EntriesDistinct' /\ AnsweredHasLeft'
<1>1. Queued' = Queued
  BY DEF Queued
<1> QED BY <1>1 DEF IInv, LimitRespected, LoadingIsQueued, EntriesDistinct, AnsweredHasLeft

\* Sending a request.
LEMMA SendKeepsIInv == ASSUME IInv, NEW r \in Requests, Send(r) PROVE IInv'
<1> USE DEF requestVars, appVars
<1>1. /\ requests' \in Seq(Requests) /\ Queued' = Queued \cup {r}
      /\ Distinct(requests') /\ r \notin Queued
  BY AddToQueueFacts DEF IInv, Send, Queued, AnsweredHasLeft
<1>2. IsFiniteSet(isLoading)' /\ LimitRespected'
  BY DEF IInv, Send, LimitRespected
<1>3. UNCHANGED <<timerVars, pass>> \/ LoadNextInQueue(suspended, timers)
  BY DEF Send
<1>4. TypeOK'
  BY <1>1, <1>3, TimerType DEF IInv, TypeOK, Send
<1>5. LoadingIsQueued' /\ EntriesDistinct' /\ ObserversLoad'
  BY <1>1 DEF IInv, LoadingIsQueued, EntriesDistinct, ObserversLoad, Distinct, Send
<1>6. AnsweredHasLeft'
  BY <1>1 DEF IInv, AnsweredHasLeft, Send
<1>7. NoLostWakeup'
  BY DEF IInv, TypeOK, NoLostWakeup, Send, LoadNextInQueue
<1> QED BY <1>2, <1>4, <1>5, <1>6, <1>7 DEF IInv

\* The dispatch loop puts a request on the wire: there is room for it.
LEMMA DispatchKeepsIInv ==
    ASSUME IInv, NEW i \in DOMAIN requests, Dispatch(i) PROVE IInv'
<1> DEFINE r == requests[i]
<1> USE DEF appVars, timerVars
<1>1. r \in Queued /\ r \in Requests /\ Queued' = Queued
  BY QueuedFacts DEF IInv, Dispatch, Queued
<1>2. r \notin isLoading /\ loadingCount < Limit
  BY DEF Dispatch, MayDispatch, IsNextRequest
<1>3. /\ IsFiniteSet(isLoading')
      /\ Cardinality(isLoading') = Cardinality(isLoading) + 1
      /\ Cardinality(isLoading) \in Nat
  BY <1>2, LoadingCardinality DEF IInv, Dispatch
<1>4. loadingCount' \in Nat /\ LimitRespected'
  BY <1>2, <1>3, QueueAssumption DEF IInv, TypeOK, LimitRespected, Dispatch
<1>5. TypeOK'
  BY <1>1, <1>4 DEF IInv, TypeOK, Dispatch
<1>6. LoadingIsQueued' /\ EntriesDistinct'
  BY <1>1 DEF IInv, LoadingIsQueued, EntriesDistinct, Dispatch
<1>7. ObserversLoad'
  BY <1>1 DEF IInv, ObserversLoad, Dispatch
<1>8. AnsweredHasLeft' /\ NoLostWakeup'
  BY <1>1 DEF IInv, AnsweredHasLeft, NoLostWakeup, Dispatch, MayDispatch
<1> QED BY <1>3, <1>4, <1>5, <1>6, <1>7, <1>8 DEF IInv

\* The dispatch loop ends; a queue that still holds requests has armed a timer.
LEMMA EndPassKeepsIInv == ASSUME IInv, EndPass PROVE IInv'
<1> USE DEF requestVars, appVars, queueVars, timerVars
<1>1. /\ Queued' = Queued
      /\ IsFiniteSet(isLoading)' /\ LimitRespected'
      /\ LoadingIsQueued' /\ EntriesDistinct' /\ AnsweredHasLeft'
  BY QueueUntouched DEF EndPass
<1>2. CASE requests # <<>> /\ ~suspended
  <2>1. queueTimer' = TRUE /\ timers' = timers + 1 /\ pass' = FALSE
    BY <1>2 DEF EndPass
  <2>2. timers' \in Nat /\ timers' > 0
    BY <2>1 DEF IInv, TypeOK
  <2>3. TypeOK'
    BY <2>1, <2>2 DEF IInv, TypeOK, EndPass
  <2>4. NoLostWakeup'
    BY <2>2 DEF NoLostWakeup
  <2>5. ObserversLoad'
    BY DEF IInv, ObserversLoad, EndPass
  <2> QED BY <1>1, <2>3, <2>4, <2>5 DEF IInv
<1>3. CASE ~(requests # <<>> /\ ~suspended)
  <2>1. UNCHANGED <<queueTimer, timers>> /\ pass' = FALSE
    BY <1>3 DEF EndPass
  <2>2. TypeOK'
    BY <2>1 DEF IInv, TypeOK, EndPass
  <2>3. NoLostWakeup'
    BY <1>3 DEF NoLostWakeup, EndPass
  <2>4. ObserversLoad'
    BY DEF IInv, ObserversLoad, EndPass
  <2> QED BY <1>1, <2>2, <2>3, <2>4 DEF IInv
<1> QED BY <1>2, <1>3

\* Cancelling one request, whether it is loading or not.
LEMMA CancelKeepsIInv ==
    ASSUME IInv, NEW r \in Queued, CancelUnsent(r) \/ CancelLoading(r),
           UNCHANGED <<suspended, submitted, bgTask, appVars, reach>>,
           toCancel' \subseteq toCancel, tell = {}
    PROVE  IInv'
<1>1. CASE CancelUnsent(r)
  <2>1. isLoading' = isLoading \ {r} /\ observing' = observing \ {r}
    BY <1>1 DEF CancelUnsent, RemoveRequest, IInv, ObserversLoad
  <2> QED BY <1>1, <2>1, LeaveKeepsIInv DEF CancelUnsent, RemoveRequest
<1>2. CASE CancelLoading(r)
  BY <1>2, LeaveKeepsIInv DEF CancelLoading, RemoveRequest
<1> QED BY <1>1, <1>2

\* Cancelling everything at once.
LEMMA CancelAllKeepsIInv == ASSUME IInv, CancelAllRequests PROVE IInv'
<1> USE DEF appVars, timerVars
<1>1. requests' \in Seq(Requests) /\ DOMAIN requests' = {} /\ Queued' = {}
  BY DEF CancelAllRequests, Queued, Range
<1>2. /\ IsFiniteSet(isLoading') /\ Cardinality(isLoading') = 0
      /\ Cardinality(isLoading) \in Nat
  BY FS_EmptySet, FS_CardinalityType DEF CancelAllRequests, IInv
<1>3. loadingCount' \in Nat /\ loadingCount' <= Limit
  BY <1>2, QueueAssumption DEF IInv, TypeOK, LimitRespected, CancelAllRequests
<1>4. LimitRespected'
  BY <1>2, <1>3 DEF LimitRespected
<1>5. told' \in [Requests -> Outcomes]
  BY DEF IInv, TypeOK, CancelAllRequests, Outcomes
<1>6. TypeOK'
  BY <1>1, <1>3, <1>5 DEF IInv, TypeOK, CancelAllRequests
<1>7. LoadingIsQueued' /\ EntriesDistinct' /\ NoLostWakeup'
  BY <1>1 DEF LoadingIsQueued, EntriesDistinct, NoLostWakeup, CancelAllRequests
<1>8. ObserversLoad'
  BY DEF IInv, ObserversLoad, LoadingIsQueued, CancelAllRequests, MainIdle
<1>9. AnsweredHasLeft'
  BY <1>1 DEF IInv, AnsweredHasLeft, CancelAllRequests
<1> QED BY <1>2, <1>4, <1>6, <1>7, <1>8, <1>9 DEF IInv

\* The queue hears that the application went to the background.
LEMMA TellQueueKeepsIInv == ASSUME IInv, TellQueue PROVE IInv'
<1> USE DEF requestVars
<1>1. /\ Queued' = Queued
      /\ IsFiniteSet(isLoading)' /\ LimitRespected'
      /\ LoadingIsQueued' /\ EntriesDistinct' /\ AnsweredHasLeft'
  BY QueueUntouched DEF TellQueue
<1>2. queueTimer' = FALSE /\ suspended' = TRUE /\ pass' = pass
  BY DEF TellQueue, Suspend
<1>3. timers' \in Nat
  BY DEF IInv, TypeOK, TellQueue, Suspend
<1>4. TypeOK'
  BY <1>2, <1>3 DEF IInv, TypeOK, TellQueue
<1>5. ObserversLoad' /\ NoLostWakeup'
  BY <1>2 DEF IInv, ObserversLoad, NoLostWakeup, TellQueue
<1> QED BY <1>1, <1>4, <1>5 DEF IInv

\* An event that leaves the requests alone and calls loadNextInQueue.
LEMMA LoadNextKeepsIInv ==
    ASSUME IInv, NEW n \in Nat,
           UNCHANGED <<requests, loadingCount, submitted, requestVars>>,
           suspended' \in BOOLEAN,
           LoadNextInQueue(suspended', n),
           appState' \in {"foreground", "background"},
           reach' \in Hosts \cup {"undetermined"},
           UNCHANGED <<toCancel, tellQueue, tell>>,
           tell = {} \/ appState' = appState
    PROVE  IInv'
<1> USE DEF requestVars
<1>1. /\ Queued' = Queued
      /\ IsFiniteSet(isLoading)' /\ LimitRespected'
      /\ LoadingIsQueued' /\ EntriesDistinct' /\ AnsweredHasLeft'
  BY QueueUntouched
<1>2. TypeOK' /\ NoLostWakeup'
  <2>1. CASE suspended' = TRUE
    BY <2>1 DEF IInv, TypeOK, NoLostWakeup, LoadNextInQueue
  <2>2. CASE suspended' = FALSE
    BY <2>2 DEF IInv, TypeOK, NoLostWakeup, LoadNextInQueue
  <2> QED BY <2>1, <2>2
<1>3. ObserversLoad'
  BY DEF IInv, ObserversLoad
<1> QED BY <1>1, <1>2, <1>3 DEF IInv

\* The invariant is inductive.
LEMMA NextIInv == IInv /\ [Next]_vars => IInv'
<1> SUFFICES ASSUME IInv, [Next]_vars PROVE IInv'
  OBVIOUS
<1> USE DEF requestVars, appVars, queueVars, timerVars
<1>1. ASSUME NEW i \in DOMAIN requests, Dispatch(i) PROVE IInv'
  BY <1>1, DispatchKeepsIInv
<1>2. ASSUME NEW i \in DOMAIN requests, NEW o \in Answers, AnswerLocally(i, o)
      PROVE  IInv'
  <2> DEFINE r == requests[i]
  <2>1. r \in Queued /\ r \notin isLoading
    BY <1>2, QueuedFacts DEF IInv, AnswerLocally, MayDispatch, IsNextRequest
  <2>2. isLoading' = isLoading \ {r} /\ observing' = observing \ {r} /\ r \notin tell
    BY <1>2, <2>1 DEF IInv, ObserversLoad, AnswerLocally
  <2> QED BY <1>2, <2>1, <2>2, LeaveKeepsIInv DEF AnswerLocally
<1>3. CASE EndPass
  BY <1>3, EndPassKeepsIInv
<1>4. CASE CancelNextOfDelegate
  <2>1. tell = {} /\ toCancel' \subseteq toCancel
    BY <1>4 DEF IInv, ObserversLoad, CancelNextOfDelegate
  <2>2. CASE \E i \in DOMAIN requests :
                CancelUnsent(requests[i]) \/ CancelLoading(requests[i])
    <3>1. PICK i \in DOMAIN requests : CancelUnsent(requests[i]) \/ CancelLoading(requests[i])
      BY <2>2
    <3>2. requests[i] \in Queued
      BY QueuedFacts DEF IInv
    <3> QED BY <1>4, <2>1, <3>1, <3>2, CancelKeepsIInv DEF CancelNextOfDelegate
  <2>3. CASE UNCHANGED <<requests, loadingCount, isLoading, told, observing, timerVars, pass>>
    <3>1. /\ Queued' = Queued
          /\ IsFiniteSet(isLoading)' /\ LimitRespected'
          /\ LoadingIsQueued' /\ EntriesDistinct' /\ AnsweredHasLeft'
      BY <1>4, <2>3, QueueUntouched DEF CancelNextOfDelegate
    <3>2. TypeOK'
      BY <1>4, <2>1, <2>3 DEF IInv, TypeOK, CancelNextOfDelegate
    <3>3. ObserversLoad' /\ NoLostWakeup'
      BY <1>4, <2>1, <2>3 DEF IInv, ObserversLoad, NoLostWakeup, CancelNextOfDelegate
    <3> QED BY <3>1, <3>2, <3>3 DEF IInv
  <2> QED BY <1>4, <2>2, <2>3 DEF CancelNextOfDelegate
<1>5. CASE TellQueue
  BY <1>5, TellQueueKeepsIInv
<1>6. ASSUME NEW r \in Requests, TellCancel(r) PROVE IInv'
  BY <1>6, UnloadKeepsIInv DEF TellCancel, Outcomes, Answers
<1>7. ASSUME NEW r \in Requests, TellRequeue(r) PROVE IInv'
  <2>1. requests' = requests
    BY <1>7 DEF TellRequeue, AddToQueue, IInv, ObserversLoad, LoadingIsQueued
  <2> QED BY <1>7, <2>1, UnloadKeepsIInv DEF TellRequeue, Outcomes, Answers
<1>8. CASE TimerFires
  <2>1. timers - 1 \in Nat /\ suspended' \in BOOLEAN
    BY <1>8 DEF IInv, TypeOK, TimerFires
  <2> QED BY <1>8, <2>1, LoadNextKeepsIInv DEF IInv, TypeOK, TimerFires
<1>9. ASSUME NEW r \in Requests, Send(r) PROVE IInv'
  BY <1>9, SendKeepsIInv
<1>10. ASSUME NEW r \in Requests, CancelRequest(r) PROVE IInv'
  <2>1. r \in Queued /\ tell = {}
    BY <1>10 DEF CancelRequest, CancelUnsent, CancelLoading, IInv, LoadingIsQueued, MainIdle
  <2> QED BY <1>10, <2>1, CancelKeepsIInv DEF CancelRequest
<1>11. ASSUME NEW r \in Requests, Expire(r) PROVE IInv'
  <2>1. r \notin observing /\ tell = {}
    BY <1>11 DEF IInv, ObserversLoad, Expire, MainIdle
  <2>2. observing' = observing \ {r} /\ tell' = tell \ {r} /\ bgTask' \subseteq bgTask
    BY <1>11, <2>1 DEF Expire
  <2>3. told' = told \/ told' = [told EXCEPT ![r] = "timeout"]
    <3>1. CASE told[r] = "detached"
      BY <1>11, <3>1 DEF Expire, IInv, TypeOK
    <3>2. CASE told[r] # "detached"
      BY <1>11, <3>2 DEF Expire
    <3> QED BY <3>1, <3>2
  <2>4. "timeout" \in Outcomes \ (Answers \cup {"detached"})
    BY DEF Outcomes, Answers
  <2> QED BY <1>11, <2>2, <2>3, <2>4, UnloadKeepsIInv DEF Expire
<1>12. ASSUME NEW r \in Requests, NEW o \in Answers, Answer(r, o) PROVE IInv'
  <2>1. r \in Queued /\ tell = {}
    BY <1>12 DEF Answer, RemoveRequest, MainIdle, IInv, LoadingIsQueued
  <2> QED BY <1>12, <2>1, LeaveKeepsIInv DEF Answer, RemoveRequest
<1>13. ASSUME NEW d \in Delegates, CancelRequestsWithDelegate(d) PROVE IInv'
  <2>1. /\ Queued' = Queued
        /\ IsFiniteSet(isLoading)' /\ LimitRespected'
        /\ LoadingIsQueued' /\ EntriesDistinct' /\ AnsweredHasLeft'
    BY <1>13, QueueUntouched DEF CancelRequestsWithDelegate
  <2>2. toCancel' \subseteq Requests
    BY <1>13, QueuedFacts DEF IInv, CancelRequestsWithDelegate
  <2>3. TypeOK'
    BY <1>13, <2>2 DEF IInv, TypeOK, CancelRequestsWithDelegate
  <2>4. ObserversLoad' /\ NoLostWakeup'
    BY <1>13 DEF IInv, ObserversLoad, NoLostWakeup, CancelRequestsWithDelegate, MainIdle
  <2> QED BY <2>1, <2>3, <2>4 DEF IInv
<1>14. CASE CancelAllRequests
  BY <1>14, CancelAllKeepsIInv
<1>15. CASE EnterBackground
  <2>1. /\ Queued' = Queued
        /\ IsFiniteSet(isLoading)' /\ LimitRespected'
        /\ LoadingIsQueued' /\ EntriesDistinct' /\ AnsweredHasLeft'
    BY <1>15, QueueUntouched DEF EnterBackground
  <2>2. TypeOK'
    BY <1>15 DEF IInv, TypeOK, EnterBackground
  <2>3. ObserversLoad' /\ NoLostWakeup'
    BY <1>15 DEF IInv, ObserversLoad, NoLostWakeup, EnterBackground, MainIdle
  <2> QED BY <2>1, <2>2, <2>3 DEF IInv
<1>16. CASE EnterForeground
  BY <1>16, LoadNextKeepsIInv DEF IInv, TypeOK, EnterForeground, MainIdle, Unsuspend
<1>17. ASSUME NEW v \in Hosts, DetermineReachability(v) PROVE IInv'
  BY <1>17, LoadNextKeepsIInv DEF IInv, TypeOK, DetermineReachability, Unsuspend
<1>18. ASSUME NEW v \in Hosts, NetworkChanges(v) PROVE IInv'
  <2>1. /\ Queued' = Queued
        /\ IsFiniteSet(isLoading)' /\ LimitRespected'
        /\ LoadingIsQueued' /\ EntriesDistinct' /\ AnsweredHasLeft'
    BY <1>18, QueueUntouched DEF NetworkChanges
  <2>2. TypeOK' /\ ObserversLoad' /\ NoLostWakeup'
    BY <1>18 DEF IInv, TypeOK, ObserversLoad, NoLostWakeup, NetworkChanges
  <2> QED BY <2>1, <2>2 DEF IInv
<1>19. CASE UNCHANGED vars
  <2>1. /\ Queued' = Queued
        /\ IsFiniteSet(isLoading)' /\ LimitRespected'
        /\ LoadingIsQueued' /\ EntriesDistinct' /\ AnsweredHasLeft'
    BY <1>19, QueueUntouched DEF vars
  <2>2. TypeOK' /\ ObserversLoad' /\ NoLostWakeup'
    BY <1>19 DEF IInv, TypeOK, ObserversLoad, NoLostWakeup, vars
  <2> QED BY <2>1, <2>2 DEF IInv
<1> QED
  BY <1>1, <1>2, <1>3, <1>4, <1>5, <1>6, <1>7, <1>8, <1>9, <1>10, <1>11, <1>12,
     <1>13, <1>14, <1>15, <1>16, <1>17, <1>18, <1>19 DEF Next, Continue

-----------------------------------------------------------------------------
(* Theorems.                                                               *)

\* The invariant holds in every reachable state.
THEOREM InvariantHolds == Spec => []IInv
BY InitIInv, NextIInv, PTL DEF Spec

\* The variables keep their types, and no timer the queue knows is gone.
THEOREM TypeCorrect == Spec => []TypeOK
<1>1. IInv => TypeOK
  BY DEF IInv
<1> QED BY <1>1, InvariantHolds, PTL

\* At most Limit requests are loading at any time, and the counter never says
\* less than is loading: for any number of requests, limit and policies.
THEOREM LimitHolds == Spec => []LimitRespected
<1>1. IInv => LimitRespected
  BY DEF IInv
<1> QED BY <1>1, InvariantHolds, PTL

\* A loading request is in the queue's array, where its end will find it.
THEOREM LoadingStaysQueued == Spec => []LoadingIsQueued
<1>1. IInv => LoadingIsQueued
  BY DEF IInv
<1> QED BY <1>1, InvariantHolds, PTL

\* An unsuspended queue with requests is dispatching or has a timer scheduled.
THEOREM WakeupNeverLost == Spec => []NoLostWakeup
<1>1. IInv => NoLostWakeup
  BY DEF IInv
<1> QED BY <1>1, InvariantHolds, PTL

\* What a step may do to what the delegates were told.
LastWordsKept ==
    \A r \in Requests :
        /\ told[r] \in Answers => told'[r] \in {told[r], "timeout"}
        /\ told[r] = "detached" => told'[r] = "detached"

\* A delegate has had the last word only of requests that are not in the queue,
\* and every step but an expiration speaks of a request that is.
LEMMA StepKeepsLastWords == IInv /\ [Next]_vars => LastWordsKept
<1> SUFFICES ASSUME IInv, [Next]_vars PROVE LastWordsKept
  OBVIOUS
<1> USE DEF requestVars, appVars, queueVars, timerVars
<1>1. \A r \in Requests : told[r] \in Answers \cup {"detached"} => r \notin Queued
  BY DEF IInv, AnsweredHasLeft
<1>2. ASSUME UNCHANGED told PROVE LastWordsKept
  BY <1>2 DEF LastWordsKept
<1>3. ASSUME NEW r \in Queued, NEW o, told' = [told EXCEPT ![r] = o]
      PROVE  LastWordsKept
  BY <1>1, <1>3 DEF LastWordsKept, IInv, TypeOK
<1>4. ASSUME NEW i \in DOMAIN requests PROVE requests[i] \in Queued
  BY QueuedFacts DEF IInv
<1>5. ASSUME NEW r, CancelUnsent(r) \/ CancelLoading(r) PROVE LastWordsKept
  <2>1. r \in Queued
    BY <1>5 DEF CancelUnsent, CancelLoading, RemoveRequest, IInv, LoadingIsQueued
  <2> QED BY <1>3, <1>5, <2>1 DEF CancelUnsent, CancelLoading, RemoveRequest
<1>6. ASSUME NEW i \in DOMAIN requests,
             Dispatch(i) \/ \E o \in Answers : AnswerLocally(i, o)
      PROVE  LastWordsKept
  BY <1>2, <1>3, <1>4, <1>6 DEF Dispatch, AnswerLocally
<1>7. CASE CancelNextOfDelegate
  BY <1>2, <1>5, <1>7 DEF CancelNextOfDelegate
<1>8. ASSUME NEW r \in Requests, TellCancel(r) \/ TellRequeue(r) PROVE LastWordsKept
  <2>1. r \in Queued
    BY <1>8 DEF TellCancel, TellRequeue, IInv, ObserversLoad, LoadingIsQueued
  <2> QED BY <1>2, <1>3, <1>8, <2>1 DEF TellCancel, TellRequeue
<1>9. ASSUME NEW r \in Requests, Expire(r) PROVE LastWordsKept
  BY <1>9 DEF Expire, LastWordsKept, IInv, TypeOK, Answers
<1>10. ASSUME NEW r \in Requests, NEW o \in Answers, Answer(r, o) PROVE LastWordsKept
  <2>1. r \in Queued
    BY <1>10 DEF Answer, RemoveRequest, IInv, LoadingIsQueued
  <2> QED BY <1>3, <1>10, <2>1 DEF Answer, RemoveRequest
<1>11. CASE CancelAllRequests
  BY <1>1, <1>11 DEF CancelAllRequests, LastWordsKept
<1>12. ASSUME NEW r \in Requests, Send(r) \/ CancelRequest(r) PROVE LastWordsKept
  BY <1>2, <1>5, <1>12 DEF Send, CancelRequest
<1>13. CASE EndPass \/ TellQueue \/ TimerFires \/ EnterBackground \/ EnterForeground
  BY <1>2, <1>13 DEF EndPass, TellQueue, TimerFires, EnterBackground, EnterForeground
<1>14. ASSUME NEW d \in Delegates, CancelRequestsWithDelegate(d) PROVE LastWordsKept
  BY <1>2, <1>14 DEF CancelRequestsWithDelegate
<1>15. ASSUME NEW v \in Hosts, DetermineReachability(v) \/ NetworkChanges(v)
       PROVE  LastWordsKept
  BY <1>2, <1>15 DEF DetermineReachability, NetworkChanges
<1>16. CASE UNCHANGED vars
  BY <1>2, <1>16 DEF vars
<1> QED
  BY <1>6, <1>7, <1>8, <1>9, <1>10, <1>11, <1>12, <1>13, <1>14, <1>15, <1>16
     DEF Next, Continue

\* Whatever is cancelled, answered, expired or sent to the background when, no
\* delegate is given a second answer or hears of a request that was cancelled
\* for it.
THEOREM AnsweredOnceHolds == Spec => AnsweredOnce
<1>1. IInv /\ [Next]_vars => [LastWordsKept]_vars
  BY StepKeepsLastWords
<1>2. AnsweredOnce <=> [][LastWordsKept]_vars
  BY DEF AnsweredOnce, LastWordsKept
<1> QED BY <1>1, <1>2, InvariantHolds, PTL DEF Spec

-----------------------------------------------------------------------------
(* The queue implements RequestService.                                    *)

\* A request that leaves the array, and the wire, leaves the line.
LEMMA RemovalLeaves ==
    ASSUME IInv, NEW r \in Queued,
           requests' = RemoveFromQueue(r), isLoading' = isLoading \ {r},
           submitted' = submitted
    PROVE  Service!Next
<1>1. PositionOf(r) \in DOMAIN requests /\ requests[PositionOf(r)] = r
  BY DEF PositionOf, Queued, Range
<1>2. Queued' = Queued \ {r} /\ r \in submitted
  BY RemoveFromQueueFacts DEF IInv, Queued, AnsweredHasLeft
<1>3. (submitted \ Queued)' = (submitted \ Queued) \cup {r}
  BY <1>2
<1>4. Service!Leave(PositionOf(r))
  BY <1>1, <1>3 DEF Service!Leave, RemoveFromQueue, Service!RemoveAt, RemoveAt
<1> QED BY <1>1, <1>4 DEF Service!Next

\* A request that comes off the wire but stays in the array is put back.
LEMMA UnloadingPutsBack ==
    ASSUME IInv, NEW r \in Requests,
           requests' = requests, isLoading' = isLoading \ {r}, submitted' = submitted
    PROVE  Service!Next \/ UNCHANGED Service!vars
<1>1. Queued' = Queued
  BY DEF Queued
<1>2. CASE r \in isLoading
  BY <1>1, <1>2 DEF Service!PutBack, Service!Next
<1>3. CASE r \notin isLoading
  BY <1>1, <1>3 DEF Service!vars
<1> QED BY <1>2, <1>3

\* A queue that has just been built is an empty line.
LEMMA InitRefines == Init => Service!Init
<1> SUFFICES ASSUME Init PROVE Service!Init
  OBVIOUS
<1> QED BY DEF Init, Service!Init

\* Every step of the queue is a step of the line, or none.
LEMMA StepRefines == IInv /\ [Next]_vars => [Service!Next]_(Service!vars)
<1> SUFFICES ASSUME IInv, [Next]_vars PROVE Service!Next \/ UNCHANGED Service!vars
  OBVIOUS
<1> USE DEF requestVars, appVars, queueVars, timerVars
<1>1. ASSUME UNCHANGED <<requests, isLoading, submitted>>
      PROVE  UNCHANGED Service!vars
  BY <1>1 DEF Service!vars, Queued
<1>2. ASSUME NEW i \in DOMAIN requests, Dispatch(i) PROVE Service!Next
  <2>1. Queued' = Queued
    BY <1>2 DEF Dispatch, Queued
  <2>2. Cardinality(isLoading) < Limit
    <3>1. Cardinality(isLoading) \in Nat /\ Cardinality(isLoading) <= loadingCount
      BY LoadingCardinality DEF IInv, LimitRespected
    <3>2. loadingCount \in Nat /\ loadingCount < Limit
      BY <1>2 DEF Dispatch, MayDispatch, IInv, TypeOK
    <3> QED BY <3>1, <3>2, QueueAssumption
  <2>3. Service!IsHead(i)
    BY <1>2 DEF Dispatch, MayDispatch, IsNextRequest, Service!IsHead
  <2>4. Service!Cardinality(isLoading) = Cardinality(isLoading)
    BY DEF Service!Cardinality, Cardinality
  <2>5. Service!Begin(i)
    BY <1>2, <2>1, <2>2, <2>3, <2>4 DEF Dispatch, Service!Begin
  <2> QED BY <2>5 DEF Service!Next
<1>3. ASSUME NEW i \in DOMAIN requests, NEW o \in Answers, AnswerLocally(i, o)
      PROVE  Service!Next
  <2>1. requests[i] \in Queued /\ requests[i] \notin isLoading
    BY <1>3, QueuedFacts DEF IInv, AnswerLocally, MayDispatch, IsNextRequest
  <2>2. isLoading' = isLoading \ {requests[i]}
    BY <1>3, <2>1 DEF AnswerLocally
  <2> QED BY <1>3, <2>1, <2>2, RemovalLeaves DEF AnswerLocally
<1>4. ASSUME NEW r, CancelUnsent(r) \/ CancelLoading(r), submitted' = submitted
      PROVE  Service!Next
  <2>1. r \in Queued
    BY <1>4 DEF CancelUnsent, CancelLoading, RemoveRequest, IInv, LoadingIsQueued
  <2>2. requests' = RemoveFromQueue(r) /\ isLoading' = isLoading \ {r}
    BY <1>4 DEF CancelUnsent, CancelLoading, RemoveRequest
  <2> QED BY <1>4, <2>1, <2>2, RemovalLeaves
<1>5. CASE CancelNextOfDelegate
  BY <1>1, <1>4, <1>5 DEF CancelNextOfDelegate
<1>6. ASSUME NEW r \in Requests, TellCancel(r)
      PROVE  Service!Next \/ UNCHANGED Service!vars
  BY <1>6, UnloadingPutsBack DEF TellCancel
<1>7. ASSUME NEW r \in Requests, TellRequeue(r)
      PROVE  Service!Next \/ UNCHANGED Service!vars
  <2>1. requests' = requests
    BY <1>7 DEF TellRequeue, AddToQueue, IInv, ObserversLoad, LoadingIsQueued
  <2> QED BY <1>7, <2>1, UnloadingPutsBack DEF TellRequeue
<1>8. ASSUME NEW r \in Requests, Expire(r)
      PROVE  Service!Next \/ UNCHANGED Service!vars
  BY <1>8, UnloadingPutsBack DEF Expire
<1>9. ASSUME NEW r \in Requests, NEW o \in Answers, Answer(r, o) PROVE Service!Next
  <2>1. r \in Queued
    BY <1>9 DEF Answer, RemoveRequest, IInv, LoadingIsQueued
  <2> QED BY <1>9, <2>1, RemovalLeaves DEF Answer, RemoveRequest
<1>10. ASSUME NEW r \in Requests, Send(r) PROVE Service!Next
  <2>1. r \notin submitted /\ r \notin Queued /\ Queued \subseteq submitted
    BY <1>10 DEF Send, IInv, AnsweredHasLeft
  <2>2. requests' = Append(requests, r)
    BY <1>10, <2>1 DEF Send, AddToQueue
  <2>3. Queued' = Queued \cup {r}
    BY <1>10, AddToQueueFacts DEF IInv, Send, Queued
  <2>4. (submitted \ Queued)' = submitted \ Queued
    BY <1>10, <2>1, <2>3 DEF Send
  <2>5. Service!Join(r)
    BY <1>10, <2>1, <2>2, <2>4 DEF Service!Join, Service!Range, Range, Send, Queued
  <2> QED BY <2>5 DEF Service!Next
<1>11. ASSUME NEW r \in Requests, CancelRequest(r) PROVE Service!Next
  BY <1>4, <1>11 DEF CancelRequest
<1>12. CASE CancelAllRequests
  <2>1. Queued' = {} /\ Queued \subseteq submitted
    BY <1>12 DEF CancelAllRequests, Queued, Range, IInv, AnsweredHasLeft
  <2>2. (submitted \ Queued)' = (submitted \ Queued) \cup Queued
    BY <1>12, <2>1 DEF CancelAllRequests
  <2>3. Service!Clear
    BY <1>12, <2>2 DEF CancelAllRequests, Service!Clear, Service!Range, Range, Queued
  <2> QED BY <2>3 DEF Service!Next
<1>13. ASSUME EndPass \/ TellQueue \/ TimerFires \/ EnterBackground \/ EnterForeground
       PROVE  UNCHANGED Service!vars
  BY <1>1, <1>13 DEF EndPass, TellQueue, TimerFires, EnterBackground, EnterForeground
<1>14. ASSUME NEW d \in Delegates, CancelRequestsWithDelegate(d)
       PROVE  UNCHANGED Service!vars
  BY <1>1, <1>14 DEF CancelRequestsWithDelegate
<1>15. ASSUME NEW v \in Hosts, DetermineReachability(v) \/ NetworkChanges(v)
       PROVE  UNCHANGED Service!vars
  BY <1>1, <1>15 DEF DetermineReachability, NetworkChanges
<1>16. ASSUME UNCHANGED vars PROVE UNCHANGED Service!vars
  BY <1>1, <1>16 DEF vars
<1> QED
  BY <1>2, <1>3, <1>5, <1>6, <1>7, <1>8, <1>9, <1>10, <1>11, <1>12, <1>13, <1>14,
     <1>15, <1>16 DEF Next, Continue

\* Counter, timers, suspension, background policies and reachability only decide
\* when the line moves: never who is next, how many are served, or whether a
\* request that left comes back.
THEOREM QueueRefinesService == Spec => RefinesService
BY InitRefines, StepRefines, InvariantHolds, PTL DEF Spec, Service!Spec, RefinesService

-----------------------------------------------------------------------------
(* The counter.                                                            *)

\* Without background policies every step moves the counter and the number of
\* loading requests together.
LEMMA StepKeepsCount == IInv /\ CountIsExact /\ [Next]_vars => CountIsExact'
<1> SUFFICES ASSUME IInv, [Next]_vars, \A r \in Requests : Policy[r] = "none",
                    loadingCount = Cardinality(isLoading)
             PROVE  loadingCount' = Cardinality(isLoading')
  BY DEF CountIsExact
<1> USE DEF requestVars, appVars, queueVars, timerVars
<1>1. observing = {} /\ bgTask = {} /\ tell = {}
  BY DEF IInv, TypeOK, ObserversLoad
<1>2. ASSUME UNCHANGED <<loadingCount, isLoading>> PROVE loadingCount' = Cardinality(isLoading')
  BY <1>2
<1>3. ASSUME NEW r \in isLoading, loadingCount' = loadingCount - 1,
             isLoading' = isLoading \ {r}
      PROVE  loadingCount' = Cardinality(isLoading')
  BY <1>3, LoadingCardinality DEF IInv
<1>4. ASSUME NEW i \in DOMAIN requests, Dispatch(i)
      PROVE  loadingCount' = Cardinality(isLoading')
  <2>1. requests[i] \notin isLoading
    BY <1>4 DEF Dispatch, MayDispatch, IsNextRequest
  <2> QED BY <1>4, <2>1, LoadingCardinality DEF IInv, Dispatch
<1>5. ASSUME NEW i \in DOMAIN requests, NEW o \in Answers, AnswerLocally(i, o)
      PROVE  loadingCount' = Cardinality(isLoading')
  BY <1>2, <1>5 DEF AnswerLocally
<1>6. ASSUME NEW r, CancelUnsent(r) \/ CancelLoading(r)
      PROVE  loadingCount' = Cardinality(isLoading')
  BY <1>2, <1>3, <1>6 DEF CancelUnsent, CancelLoading, RemoveRequest
<1>7. CASE CancelNextOfDelegate
  BY <1>2, <1>6, <1>7 DEF CancelNextOfDelegate
<1>8. ASSUME NEW r \in Requests, TellCancel(r) \/ TellRequeue(r) \/ Expire(r)
      PROVE  FALSE
  BY <1>1, <1>8 DEF TellCancel, TellRequeue, Expire
<1>9. ASSUME NEW r \in Requests, NEW o \in Answers, Answer(r, o)
      PROVE  loadingCount' = Cardinality(isLoading')
  BY <1>3, <1>9 DEF Answer, RemoveRequest
<1>10. CASE CancelAllRequests
  <2>1. isLoading' = {} /\ loadingCount' = loadingCount - Cardinality(isLoading)
    BY <1>10 DEF CancelAllRequests
  <2>2. loadingCount' = 0
    BY <2>1, FS_CardinalityType DEF IInv
  <2> QED BY <2>1, <2>2, FS_EmptySet
<1>11. ASSUME NEW r \in Requests, Send(r) \/ CancelRequest(r)
       PROVE  loadingCount' = Cardinality(isLoading')
  BY <1>2, <1>6, <1>11 DEF Send, CancelRequest
<1>12. CASE EndPass \/ TellQueue \/ TimerFires \/ EnterBackground \/ EnterForeground
  BY <1>2, <1>12 DEF EndPass, TellQueue, TimerFires, EnterBackground, EnterForeground
<1>13. ASSUME NEW d \in Delegates, CancelRequestsWithDelegate(d)
       PROVE  loadingCount' = Cardinality(isLoading')
  BY <1>2, <1>13 DEF CancelRequestsWithDelegate
<1>14. ASSUME NEW v \in Hosts, DetermineReachability(v) \/ NetworkChanges(v)
       PROVE  loadingCount' = Cardinality(isLoading')
  BY <1>2, <1>14 DEF DetermineReachability, NetworkChanges
<1>15. CASE UNCHANGED vars
  BY <1>2, <1>15 DEF vars
<1> QED
  BY <1>4, <1>5, <1>7, <1>8, <1>9, <1>10, <1>11, <1>12, <1>13, <1>14, <1>15
     DEF Next, Continue

\* With RKRequest's default policy, None, the counter of loading requests is the
\* number of loading requests: cancellations, local answers and the end of a
\* request count exactly once each.
THEOREM CountHolds == Spec => []CountIsExact
<1>1. Init => CountIsExact
  BY FS_EmptySet DEF Init, CountIsExact
<1> QED BY <1>1, StepKeepsCount, InvariantHolds, PTL DEF Spec

-----------------------------------------------------------------------------
(* The places of the limit.                                                *)

\* What a step may do to the number of lost places.
PlacesKept ==
    /\ LostPlaces' >= LostPlaces
    /\ LostPlaces' > LostPlaces => appState = "background"

\* Every way off the wire either gives its place back or is one of the three
\* that only the background opens.
LEMMA StepKeepsPlaces == IInv /\ IInv' /\ [Next]_vars => PlacesKept
<1> SUFFICES ASSUME IInv, IInv', [Next]_vars PROVE PlacesKept
  OBVIOUS
<1> USE DEF requestVars, appVars, queueVars, timerVars
<1> DEFINE n == Cardinality(isLoading)
<1>1. /\ n \in Nat /\ n' \in Nat
      /\ loadingCount \in Nat /\ loadingCount' \in Nat
  BY FS_CardinalityType DEF IInv, TypeOK
<1>2. ASSUME loadingCount' - n' = loadingCount - n PROVE PlacesKept
  <2>1. LostPlaces' = LostPlaces /\ LostPlaces \in Int
    BY <1>1, <1>2 DEF LostPlaces
  <2> HIDE DEF LostPlaces
  <2> QED BY <2>1 DEF PlacesKept
<1>3. ASSUME UNCHANGED <<loadingCount, isLoading>> PROVE PlacesKept
  BY <1>2, <1>3
<1>4. ASSUME NEW r \in isLoading, loadingCount' = loadingCount - 1,
             isLoading' = isLoading \ {r}
      PROVE  PlacesKept
  <2>1. n' = n - 1
    BY <1>4, LoadingCardinality DEF IInv
  <2> HIDE DEF n
  <2> QED BY <1>1, <1>2, <1>4, <2>1
<1>5. ASSUME NEW r, loadingCount' = loadingCount, isLoading' = isLoading \ {r},
             appState = "background"
      PROVE  PlacesKept
  <2>1. n' = n \/ n' = n - 1
    BY <1>5, LoadingCardinality DEF IInv
  <2>2. n' <= n
    BY <1>1, <2>1
  <2>3. loadingCount' - n' >= loadingCount - n
    BY <1>1, <1>5, <2>2
  <2> QED BY <1>5, <2>3 DEF PlacesKept, LostPlaces
<1>6. ASSUME NEW i \in DOMAIN requests, Dispatch(i) PROVE PlacesKept
  <2>1. requests[i] \notin isLoading
    BY <1>6 DEF Dispatch, MayDispatch, IsNextRequest
  <2>2. n' = n + 1 /\ loadingCount' = loadingCount + 1
    BY <1>6, <2>1, LoadingCardinality DEF IInv, Dispatch
  <2> HIDE DEF n
  <2> QED BY <1>1, <1>2, <2>2
<1>7. ASSUME NEW i \in DOMAIN requests, NEW o \in Answers, AnswerLocally(i, o)
      PROVE  PlacesKept
  BY <1>3, <1>7 DEF AnswerLocally
<1>8. ASSUME NEW r, CancelUnsent(r) \/ CancelLoading(r) PROVE PlacesKept
  BY <1>3, <1>4, <1>8 DEF CancelUnsent, CancelLoading, RemoveRequest
<1>9. CASE CancelNextOfDelegate
  BY <1>3, <1>8, <1>9 DEF CancelNextOfDelegate
<1>10. ASSUME NEW r \in Requests, TellCancel(r) \/ TellRequeue(r) \/ Expire(r)
       PROVE  PlacesKept
  <2>1. appState = "background"
    BY <1>10 DEF TellCancel, TellRequeue, Expire, IInv, ObserversLoad
  <2> QED BY <1>5, <1>10, <2>1 DEF TellCancel, TellRequeue, Expire
<1>11. ASSUME NEW r \in Requests, NEW o \in Answers, Answer(r, o) PROVE PlacesKept
  BY <1>4, <1>11 DEF Answer, RemoveRequest
<1>12. CASE CancelAllRequests
  <2>1. n' = 0 /\ loadingCount' = loadingCount - n
    BY <1>12, FS_EmptySet DEF CancelAllRequests
  <2> HIDE DEF n
  <2> QED BY <1>1, <1>2, <2>1
<1>13. ASSUME NEW r \in Requests, Send(r) \/ CancelRequest(r) PROVE PlacesKept
  BY <1>3, <1>8, <1>13 DEF Send, CancelRequest
<1>14. CASE EndPass \/ TellQueue \/ TimerFires \/ EnterBackground \/ EnterForeground
  BY <1>3, <1>14 DEF EndPass, TellQueue, TimerFires, EnterBackground, EnterForeground
<1>15. ASSUME NEW d \in Delegates, CancelRequestsWithDelegate(d) PROVE PlacesKept
  BY <1>3, <1>15 DEF CancelRequestsWithDelegate
<1>16. ASSUME NEW v \in Hosts, DetermineReachability(v) \/ NetworkChanges(v)
       PROVE  PlacesKept
  BY <1>3, <1>16 DEF DetermineReachability, NetworkChanges
<1>17. CASE UNCHANGED vars
  BY <1>3, <1>17 DEF vars
<1> QED
  BY <1>6, <1>7, <1>9, <1>10, <1>11, <1>12, <1>13, <1>14, <1>15, <1>16, <1>17
     DEF Next, Continue

\* A place lost to the background is never got back, and none is lost in the
\* foreground.
THEOREM PlacesStayLost == Spec => LostPlacesStayLost
<1>1. IInv /\ IInv' /\ [Next]_vars => [PlacesKept]_vars
  BY StepKeepsPlaces
<1>2. LostPlacesStayLost <=> [][PlacesKept]_vars
  BY DEF LostPlacesStayLost, PlacesKept
<1> QED BY <1>1, <1>2, InvariantHolds, PTL DEF Spec

\* A queue that has lost all its places is dead: whatever the application sends,
\* cancels or suspends from then on, nothing is ever put on the wire again.
\* This is what stands behind the requeued requests that never fire.
THEOREM ExhaustedQueueIsDead == Spec => [](LostPlaces = Limit => [](isLoading = {}))
<1> DEFINE Exhausted == LostPlaces = Limit
<1>1. IInv /\ IInv' /\ Exhausted /\ [Next]_vars => Exhausted'
  <2> SUFFICES ASSUME IInv, IInv', Exhausted, [Next]_vars PROVE LostPlaces' = Limit
    OBVIOUS
  <2>1. LostPlaces' >= LostPlaces
    BY StepKeepsPlaces DEF PlacesKept
  <2>2. LostPlaces' \in Int /\ LostPlaces' <= Limit
    <3>1. Cardinality(isLoading)' \in Nat /\ loadingCount' \in Nat /\ loadingCount' <= Limit
      BY FS_CardinalityType DEF IInv, TypeOK, LimitRespected
    <3> QED BY <3>1, QueueAssumption DEF LostPlaces
  <2> QED BY <2>1, <2>2, QueueAssumption
<1>2. IInv /\ Exhausted => isLoading = {}
  <2> SUFFICES ASSUME IInv, LostPlaces = Limit PROVE isLoading = {}
    OBVIOUS
  <2>1. /\ Cardinality(isLoading) \in Nat /\ loadingCount \in Nat
        /\ Cardinality(isLoading) <= loadingCount /\ loadingCount <= Limit
    BY FS_CardinalityType DEF IInv, TypeOK, LimitRespected
  <2>2. Cardinality(isLoading) = 0
    BY <2>1, QueueAssumption DEF LostPlaces
  <2> QED BY <2>2, FS_EmptySet DEF IInv
<1> HIDE DEF Exhausted
<1>3. Spec => [](Exhausted => [](isLoading = {}))
  BY <1>1, <1>2, InvariantHolds, PTL DEF Spec
<1> QED BY <1>3 DEF Exhausted

-----------------------------------------------------------------------------
(* Waiting for reachability.                                               *)

\* While the host's reachability is unknown the queue is suspended.
Waiting == reach = "undetermined" => suspended /\ ~pass /\ isLoading = {}

\* In the foreground only the reachability callback ends the suspension.
LEMMA StepKeepsWaiting ==
    IInv /\ Waiting /\ appState = "foreground" /\ [Next]_vars => Waiting'
<1> SUFFICES ASSUME IInv, appState = "foreground", [Next]_vars, reach' = "undetermined",
                    reach = "undetermined" => suspended /\ ~pass /\ isLoading = {}
             PROVE  suspended' /\ ~pass' /\ isLoading' = {}
  BY DEF Waiting
<1> USE DEF requestVars, appVars, queueVars, timerVars
<1>1. CASE reach # "undetermined"
  <2>1. UNCHANGED reach \/ reach' \in Hosts
    BY DEF Next, Continue, Dispatch, AnswerLocally, EndPass, CancelNextOfDelegate,
           TellQueue, TellCancel, TellRequeue, TimerFires, Send, CancelRequest, Expire,
           Answer, CancelRequestsWithDelegate, CancelAllRequests, EnterBackground,
           EnterForeground, DetermineReachability, NetworkChanges, vars
  <2> QED BY <1>1, <2>1 DEF Hosts
<1>2. CASE reach = "undetermined"
  <2> USE <1>2
  <2>1. suspended = TRUE /\ pass = FALSE /\ isLoading = {} /\ observing = {} /\ tell = {}
    BY DEF IInv, TypeOK, ObserversLoad
  <2>2. ASSUME UNCHANGED <<suspended, isLoading>>,
               pass' = pass \/ \E n : LoadNextInQueue(suspended, n)
        PROVE  suspended' /\ ~pass' /\ isLoading' = {}
    BY <2>1, <2>2 DEF LoadNextInQueue
  <2>3. ASSUME NEW r, CancelUnsent(r) \/ CancelLoading(r), UNCHANGED suspended
        PROVE  suspended' /\ ~pass' /\ isLoading' = {}
    BY <2>1, <2>2, <2>3 DEF CancelUnsent, CancelLoading
  <2>4. CASE Continue
    BY <2>1, <2>2, <2>3, <2>4 DEF Continue, Dispatch, AnswerLocally, MayDispatch, EndPass,
       CancelNextOfDelegate, TellQueue, Suspend, TellCancel, TellRequeue
  <2>5. ASSUME NEW r \in Requests,
               \/ Send(r) \/ CancelRequest(r) \/ Expire(r)
               \/ \E o \in Answers : Answer(r, o)
        PROVE  suspended' /\ ~pass' /\ isLoading' = {}
    BY <2>1, <2>2, <2>3, <2>5 DEF Send, CancelRequest, Expire, Answer
  <2>6. CASE \/ TimerFires \/ CancelAllRequests \/ EnterBackground \/ UNCHANGED vars
             \/ \E d \in Delegates : CancelRequestsWithDelegate(d)
    BY <2>1, <2>2, <2>6 DEF TimerFires, CancelAllRequests, EnterBackground,
       CancelRequestsWithDelegate, vars
  <2>7. CASE EnterForeground
    BY <2>7 DEF EnterForeground
  <2>8. CASE \E v \in Hosts : DetermineReachability(v) \/ NetworkChanges(v)
    BY <2>8 DEF DetermineReachability, NetworkChanges, Hosts
  <2> QED BY <2>4, <2>5, <2>6, <2>7, <2>8 DEF Next
<1> QED BY <1>1, <1>2

\* The promise of RKRequestQueue.m:250 is kept for as long as the application
\* stays in the foreground: the run that breaks it needs the background.
THEOREM ForegroundWaits ==
    Spec /\ [](appState = "foreground") => []NothingSentBeforeReachability
<1>1. Init => Waiting
  BY DEF Init, Waiting
<1>2. Waiting => NothingSentBeforeReachability
  BY DEF Waiting, NothingSentBeforeReachability
<1> QED BY <1>1, <1>2, StepKeepsWaiting, InvariantHolds, PTL DEF Spec

=============================================================================
