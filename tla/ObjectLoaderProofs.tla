------------------------ MODULE ObjectLoaderProofs ------------------------
(***************************************************************************)
(* Theorems about ObjectLoader, for any finite set of loaders, any of them *)
(* managed, any concurrency limit and any width of the counter.            *)
(***************************************************************************)
EXTENDS ObjectLoader, FiniteSetTheorems, TLAPS

\* The counter stays within its width whatever is added to it.
LEMMA CountWidth ==
    ASSUME NEW n \in 0 .. CountModulus - 1
    PROVE  /\ Incremented(n) \in 0 .. CountModulus - 1
           /\ Decremented(n) \in 0 .. CountModulus - 1
BY LoaderAssumption DEF Incremented, Decremented

\* It wraps only at its ends.
LEMMA CountSteps ==
    ASSUME NEW n \in 0 .. CountModulus - 1
    PROVE  /\ n < Limit => Incremented(n) = n + 1
           /\ n > 0 => Decremented(n) = n - 1
BY LoaderAssumption DEF Incremented, Decremented

-----------------------------------------------------------------------------
(* Types.                                                                  *)

\* Only a managed loader saves.
ManagedSaves == \A l \in Loaders : bg[l] = "saving" => l \in Managed

\* Nothing has happened to a loader that was not sent.
UnsentIsFresh ==
    \A l \in Loaders \ submitted :
        /\ l \notin isLoading \cup connected
        /\ fg[l] = "idle" /\ bg[l] = "none" /\ told[l] = "nothing"

TypeInv == TypeOK /\ ManagedSaves /\ UnsentIsFresh

LEMMA TypeInit == Init => TypeInv
<1> SUFFICES ASSUME Init PROVE TypeInv
  OBVIOUS
<1>1. 0 \in 0 .. CountModulus - 1
  BY LoaderAssumption
<1>2. fg \in [Loaders -> FgPhases] /\ bg \in [Loaders -> BgPhases]
  BY DEF Init, FgPhases, BgPhases
<1>3. told \in [Loaders -> Outcomes]
  BY DEF Init, Outcomes
<1> QED
  BY <1>1, <1>2, <1>3 DEF Init, TypeInv, TypeOK, ManagedSaves, UnsentIsFresh

LEMMA TypeStep ==
    ASSUME TypeInv, [Next]_vars
    PROVE  TypeInv'
<1> USE LoaderAssumption DEF vars, queueVars, requestVars, fgVars, bgVars,
  delegateVars, storeVars
<1>1. ASSUME NEW l \in Loaders, Send(l) PROVE TypeInv'
  BY <1>1 DEF Send, MainIdle, BetweenRequests, TypeInv, TypeOK, ManagedSaves,
    UnsentIsFresh, FgPhases, BgPhases, Outcomes
<1>2. ASSUME NEW l \in Loaders, BeginDispatch(l) PROVE TypeInv'
  BY <1>2 DEF BeginDispatch, isUnsent, MainIdle, BetweenRequests, TypeInv,
    TypeOK, ManagedSaves, UnsentIsFresh, FgPhases, BgPhases, Outcomes
<1>3. ASSUME NEW l \in Loaders, Connect(l) PROVE TypeInv'
  <2>1. fgCount \in 0 .. CountModulus - 1
    BY DEF TypeInv, TypeOK
  <2>2. loadingCount' \in 0 .. CountModulus - 1
    BY <1>3, <2>1, CountWidth DEF Connect
  <2> QED BY <1>3, <2>2 DEF Connect, TypeInv, TypeOK, ManagedSaves,
    UnsentIsFresh, FgPhases, BgPhases, Outcomes
<1>4. ASSUME NEW l \in Loaders, LoadFromCache(l) PROVE TypeInv'
  <2>1. fgCount \in 0 .. CountModulus - 1
    BY DEF TypeInv, TypeOK
  <2>2. loadingCount' \in 0 .. CountModulus - 1
    BY <1>4, <2>1, CountWidth DEF LoadFromCache
  <2> QED BY <1>4, <2>2 DEF LoadFromCache, TypeInv, TypeOK, ManagedSaves,
    UnsentIsFresh, FgPhases, BgPhases, Outcomes
<1>5. ASSUME NEW l \in Loaders, Refuse(l) PROVE TypeInv'
  <2>1. fgCount \in 0 .. CountModulus - 1
    BY DEF TypeInv, TypeOK
  <2>2. loadingCount' \in 0 .. CountModulus - 1
    BY <1>5, <2>1, CountWidth DEF Refuse
  <2> QED BY <1>5, <2>2 DEF Refuse, Tell, TypeInv, TypeOK, ManagedSaves,
    UnsentIsFresh, FgPhases, BgPhases, Outcomes
<1>6. ASSUME NEW l \in Loaders, Answer(l) PROVE TypeInv'
  BY <1>6 DEF Answer, MainIdle, BetweenRequests, TypeInv, TypeOK, ManagedSaves,
    UnsentIsFresh, FgPhases, BgPhases, Outcomes
<1>7. ASSUME NEW l \in Loaders, AnswerFails(l) PROVE TypeInv'
  BY <1>7 DEF AnswerFails, Tell, MainIdle, BetweenRequests, TypeInv, TypeOK,
    ManagedSaves, UnsentIsFresh, FgPhases, BgPhases, Outcomes
<1>8. ASSUME NEW l \in Loaders, Inform(l) PROVE TypeInv'
  BY <1>8 DEF Inform, Tell, MainIdle, BetweenRequests, TypeInv, TypeOK,
    ManagedSaves, UnsentIsFresh, FgPhases, BgPhases, Outcomes
<1>9. ASSUME NEW l \in Loaders, End(l) PROVE TypeInv'
  BY <1>9 DEF End, TypeInv, TypeOK, ManagedSaves, UnsentIsFresh, FgPhases,
    BgPhases, Outcomes
<1>10. ASSUME NEW l \in Loaders, Take(l) PROVE TypeInv'
  BY <1>10 DEF Take, TypeInv, TypeOK, ManagedSaves, UnsentIsFresh, FgPhases,
    BgPhases, Outcomes
<1>11. ASSUME NEW l \in Loaders, Decrement(l) PROVE TypeInv'
  <2>1. fgCount \in 0 .. CountModulus - 1
    BY DEF TypeInv, TypeOK
  <2>2. loadingCount' \in 0 .. CountModulus - 1
    BY <1>11, <2>1, CountWidth DEF Decrement
  <2> QED BY <1>11, <2>2 DEF Decrement, TypeInv, TypeOK, ManagedSaves,
    UnsentIsFresh, FgPhases, BgPhases, Outcomes
<1>12. ASSUME NEW l \in Loaders, Cancel(l) PROVE TypeInv'
  BY <1>12 DEF Cancel, isUnsent, MainIdle, BetweenRequests, TypeInv, TypeOK,
    ManagedSaves, UnsentIsFresh, FgPhases, BgPhases, Outcomes
<1>13. ASSUME NEW l \in Loaders, TellSaveFailed(l) PROVE TypeInv'
  BY <1>13 DEF TellSaveFailed, MainIdle, BetweenRequests, TypeInv, TypeOK,
    ManagedSaves, UnsentIsFresh, FgPhases, BgPhases, Outcomes
<1>14. ASSUME NEW l \in Loaders, Map(l) PROVE TypeInv'
  BY <1>14 DEF Map, TypeInv, TypeOK, ManagedSaves, UnsentIsFresh, FgPhases,
    BgPhases, Outcomes
<1>15. ASSUME NEW l \in Loaders, MapUnsaved(l) PROVE TypeInv'
  BY <1>15 DEF MapUnsaved, TypeInv, TypeOK, ManagedSaves, UnsentIsFresh,
    FgPhases, BgPhases, Outcomes
<1>16. ASSUME NEW l \in Loaders, MapFails(l) PROVE TypeInv'
  BY <1>16 DEF MapFails, TypeInv, TypeOK, ManagedSaves, UnsentIsFresh,
    FgPhases, BgPhases, Outcomes
<1>17. ASSUME NEW l \in Loaders, Save(l) PROVE TypeInv'
  BY <1>17 DEF Save, TypeInv, TypeOK, ManagedSaves, UnsentIsFresh, FgPhases,
    BgPhases, Outcomes
<1>18. ASSUME NEW l \in Loaders, SaveFails(l) PROVE TypeInv'
  BY <1>18 DEF SaveFails, TypeInv, TypeOK, ManagedSaves, UnsentIsFresh,
    FgPhases, BgPhases, Outcomes
<1>19. ASSUME NEW l \in Loaders, TellFailed(l) PROVE TypeInv'
  BY <1>19 DEF TellFailed, TypeInv, TypeOK, ManagedSaves, UnsentIsFresh,
    FgPhases, BgPhases, Outcomes
<1>20. ASSUME NEW l \in Loaders, Post(l) PROVE TypeInv'
  BY <1>20 DEF Post, TypeInv, TypeOK, ManagedSaves, UnsentIsFresh, FgPhases,
    BgPhases, Outcomes
<1>21. ASSUME NEW l \in Loaders, LookUp(l) PROVE TypeInv'
  BY <1>21 DEF LookUp, TypeInv, TypeOK, ManagedSaves, UnsentIsFresh, FgPhases,
    BgPhases, Outcomes
<1>22. ASSUME NEW l \in Loaders, Remove(l) PROVE TypeInv'
  BY <1>22 DEF Remove, TypeInv, TypeOK, ManagedSaves, UnsentIsFresh, FgPhases,
    BgPhases, Outcomes
<1>23. ASSUME NEW l \in Loaders, Count(l) PROVE TypeInv'
  BY <1>23 DEF Count, TypeInv, TypeOK, ManagedSaves, UnsentIsFresh, FgPhases,
    BgPhases, Outcomes
<1>24. ASSUME NEW l \in Loaders, DecrementOffMain(l) PROVE TypeInv'
  <2>1. bgCount[l] \in 0 .. CountModulus - 1
    BY DEF TypeInv, TypeOK
  <2>2. loadingCount' \in 0 .. CountModulus - 1
    BY <1>24, <2>1, CountWidth DEF DecrementOffMain
  <2> QED BY <1>24, <2>2 DEF DecrementOffMain, TypeInv, TypeOK, ManagedSaves,
    UnsentIsFresh, FgPhases, BgPhases, Outcomes
<1>25. CASE EndPass
  BY <1>25 DEF EndPass, BetweenRequests, TypeInv, TypeOK, ManagedSaves,
    UnsentIsFresh, FgPhases, BgPhases, Outcomes
<1>26. CASE UNCHANGED vars
  BY <1>26 DEF TypeInv, TypeOK, ManagedSaves, UnsentIsFresh, FgPhases,
    BgPhases, Outcomes, MainIdle, BetweenRequests
<1> QED
  BY <1>1, <1>2, <1>3, <1>4, <1>5, <1>6, <1>7, <1>8, <1>9, <1>10, <1>11, <1>12,
    <1>13, <1>14, <1>15, <1>16, <1>17, <1>18, <1>19, <1>20, <1>21, <1>22, <1>23,
    <1>24, <1>25, <1>26
  DEF Next, Foreground, Event, Background

-----------------------------------------------------------------------------
(* Somebody works on whatever counts as loading.                           *)

\* A thread that is about to decrement finds its request out of the array.
RemovedFirst ==
    \A l \in Loaders :
        fg[l] = "decrementing" \/ bg[l] \in {"counting", "decrementing"}
            => l \notin queued

WorkInv == TypeInv /\ RemovedFirst /\ LoadingIsWorkedOn


LEMMA WorkStep0 ==
    ASSUME WorkInv, [Next]_vars
    PROVE  (RemovedFirst /\ LoadingIsWorkedOn)'
<1> USE LoaderAssumption DEF vars, queueVars, requestVars, fgVars, bgVars,
  delegateVars, storeVars
<1>1. ASSUME NEW l \in Loaders, Send(l) PROVE (RemovedFirst /\
  LoadingIsWorkedOn)'
  BY <1>1 DEF Send, MainIdle, BetweenRequests, WorkInv, RemovedFirst,
    LoadingIsWorkedOn, TypeInv, TypeOK, UnsentIsFresh, FgPhases, BgPhases
<1>2. ASSUME NEW l \in Loaders, BeginDispatch(l) PROVE (RemovedFirst /\
  LoadingIsWorkedOn)'
  BY <1>2 DEF BeginDispatch, isUnsent, MainIdle, BetweenRequests, WorkInv,
    RemovedFirst, LoadingIsWorkedOn, TypeInv, TypeOK, FgPhases, BgPhases
<1>3. ASSUME NEW l \in Loaders, Connect(l) PROVE (RemovedFirst /\
  LoadingIsWorkedOn)'
  BY <1>3 DEF Connect, WorkInv, RemovedFirst, LoadingIsWorkedOn, TypeInv,
    TypeOK, FgPhases, BgPhases
<1>4. ASSUME NEW l \in Loaders, LoadFromCache(l) PROVE (RemovedFirst /\
  LoadingIsWorkedOn)'
  BY <1>4 DEF LoadFromCache, WorkInv, RemovedFirst, LoadingIsWorkedOn, TypeInv,
    TypeOK, FgPhases, BgPhases
<1>5. ASSUME NEW l \in Loaders, Refuse(l) PROVE (RemovedFirst /\
  LoadingIsWorkedOn)'
  BY <1>5 DEF Refuse, Tell, WorkInv, RemovedFirst, LoadingIsWorkedOn, TypeInv,
    TypeOK, FgPhases, BgPhases
<1>6. ASSUME NEW l \in Loaders, Answer(l) PROVE (RemovedFirst /\
  LoadingIsWorkedOn)'
  BY <1>6 DEF Answer, MainIdle, BetweenRequests, WorkInv, RemovedFirst,
    LoadingIsWorkedOn, TypeInv, TypeOK, FgPhases, BgPhases
<1>7. ASSUME NEW l \in Loaders, AnswerFails(l) PROVE (RemovedFirst /\
  LoadingIsWorkedOn)'
  BY <1>7 DEF AnswerFails, Tell, MainIdle, BetweenRequests, WorkInv, RemovedFirst,
    LoadingIsWorkedOn, TypeInv, TypeOK, FgPhases, BgPhases
<1>8. ASSUME NEW l \in Loaders, Inform(l) PROVE (RemovedFirst /\
  LoadingIsWorkedOn)'
  BY <1>8 DEF Inform, Tell, MainIdle, BetweenRequests, WorkInv, RemovedFirst,
    LoadingIsWorkedOn, TypeInv, TypeOK, FgPhases, BgPhases
<1>9. ASSUME NEW l \in Loaders, End(l) PROVE (RemovedFirst /\
  LoadingIsWorkedOn)'
  BY <1>9 DEF End, WorkInv, RemovedFirst, LoadingIsWorkedOn, TypeInv, TypeOK,
    FgPhases, BgPhases
<1>10. ASSUME NEW l \in Loaders, Take(l) PROVE (RemovedFirst /\
  LoadingIsWorkedOn)'
  BY <1>10 DEF Take, WorkInv, RemovedFirst, LoadingIsWorkedOn, TypeInv,
    TypeOK, FgPhases, BgPhases
<1>11. ASSUME NEW l \in Loaders, Decrement(l) PROVE (RemovedFirst /\
  LoadingIsWorkedOn)'
  BY <1>11 DEF Decrement, WorkInv, RemovedFirst, LoadingIsWorkedOn, TypeInv,
    TypeOK, FgPhases, BgPhases
<1>12. ASSUME NEW l \in Loaders, Cancel(l) PROVE (RemovedFirst /\
  LoadingIsWorkedOn)'
  BY <1>12 DEF Cancel, isUnsent, MainIdle, BetweenRequests, WorkInv, RemovedFirst,
    LoadingIsWorkedOn, TypeInv, TypeOK, FgPhases, BgPhases
<1>13. ASSUME NEW l \in Loaders, TellSaveFailed(l) PROVE (RemovedFirst /\
  LoadingIsWorkedOn)'
  BY <1>13 DEF TellSaveFailed, MainIdle, BetweenRequests, WorkInv, RemovedFirst,
    LoadingIsWorkedOn, TypeInv, TypeOK, FgPhases, BgPhases
<1>14. ASSUME NEW l \in Loaders, Map(l) PROVE (RemovedFirst /\
  LoadingIsWorkedOn)'
  BY <1>14 DEF Map, WorkInv, RemovedFirst, LoadingIsWorkedOn, TypeInv, TypeOK,
    FgPhases, BgPhases
<1>15. ASSUME NEW l \in Loaders, MapUnsaved(l) PROVE (RemovedFirst /\
  LoadingIsWorkedOn)'
  BY <1>15 DEF MapUnsaved, WorkInv, RemovedFirst, LoadingIsWorkedOn, TypeInv,
    TypeOK, FgPhases, BgPhases
<1>16. ASSUME NEW l \in Loaders, MapFails(l) PROVE (RemovedFirst /\
  LoadingIsWorkedOn)'
  BY <1>16 DEF MapFails, WorkInv, RemovedFirst, LoadingIsWorkedOn, TypeInv,
    TypeOK, FgPhases, BgPhases
<1>17. ASSUME NEW l \in Loaders, Save(l) PROVE (RemovedFirst /\
  LoadingIsWorkedOn)'
  BY <1>17 DEF Save, WorkInv, RemovedFirst, LoadingIsWorkedOn, TypeInv, TypeOK,
    FgPhases, BgPhases
<1>18. ASSUME NEW l \in Loaders, SaveFails(l) PROVE (RemovedFirst /\
  LoadingIsWorkedOn)'
  BY <1>18 DEF SaveFails, WorkInv, RemovedFirst, LoadingIsWorkedOn, TypeInv,
    TypeOK, FgPhases, BgPhases
<1>19. ASSUME NEW l \in Loaders, TellFailed(l) PROVE (RemovedFirst /\
  LoadingIsWorkedOn)'
  BY <1>19 DEF TellFailed, WorkInv, RemovedFirst, LoadingIsWorkedOn, TypeInv,
    TypeOK, FgPhases, BgPhases
<1>20. ASSUME NEW l \in Loaders, Post(l) PROVE (RemovedFirst /\
  LoadingIsWorkedOn)'
  BY <1>20 DEF Post, WorkInv, RemovedFirst, LoadingIsWorkedOn, TypeInv, TypeOK,
    FgPhases, BgPhases
<1>21. ASSUME NEW l \in Loaders, LookUp(l) PROVE (RemovedFirst /\
  LoadingIsWorkedOn)'
  BY <1>21 DEF LookUp, WorkInv, RemovedFirst, LoadingIsWorkedOn, TypeInv,
    TypeOK, FgPhases, BgPhases
<1>22. ASSUME NEW l \in Loaders, Remove(l) PROVE (RemovedFirst /\
  LoadingIsWorkedOn)'
  BY <1>22 DEF Remove, WorkInv, RemovedFirst, LoadingIsWorkedOn, TypeInv,
    TypeOK, FgPhases, BgPhases
<1>23. ASSUME NEW l \in Loaders, Count(l) PROVE (RemovedFirst /\
  LoadingIsWorkedOn)'
  BY <1>23 DEF Count, WorkInv, RemovedFirst, LoadingIsWorkedOn, TypeInv,
    TypeOK, FgPhases, BgPhases
<1>24. ASSUME NEW l \in Loaders, DecrementOffMain(l) PROVE (RemovedFirst /\
  LoadingIsWorkedOn)'
  BY <1>24 DEF DecrementOffMain, WorkInv, RemovedFirst, LoadingIsWorkedOn,
    TypeInv, TypeOK, FgPhases, BgPhases
<1>25. CASE EndPass
  BY <1>25 DEF EndPass, BetweenRequests, WorkInv, RemovedFirst,
    LoadingIsWorkedOn, TypeInv, TypeOK, FgPhases, BgPhases
<1>26. CASE UNCHANGED vars
  BY <1>26 DEF WorkInv, RemovedFirst, LoadingIsWorkedOn, TypeInv, TypeOK,
    UnsentIsFresh, FgPhases, BgPhases, MainIdle, BetweenRequests
<1> QED
  BY <1>1, <1>2, <1>3, <1>4, <1>5, <1>6, <1>7, <1>8, <1>9, <1>10, <1>11, <1>12,
    <1>13, <1>14, <1>15, <1>16, <1>17, <1>18, <1>19, <1>20, <1>21, <1>22, <1>23,
    <1>24, <1>25, <1>26
  DEF Next, Foreground, Event, Background

LEMMA WorkInit == Init => WorkInv
BY TypeInit DEF Init, WorkInv, RemovedFirst, LoadingIsWorkedOn

LEMMA WorkStep == WorkInv /\ [Next]_vars => WorkInv'
BY TypeStep, WorkStep0 DEF WorkInv


-----------------------------------------------------------------------------
(* What the delegate is told has been saved.                               *)

InformsOfCommitted ==
    \A l \in Managed : bg[l] = "informing" => l \in committed \cup notSuccess

CommitInv == TypeInv /\ InformsOfCommitted /\ LoadedIsCommitted


LEMMA CommitStep0 ==
    ASSUME CommitInv, [Next]_vars
    PROVE  (InformsOfCommitted /\ LoadedIsCommitted)'
<1> USE LoaderAssumption DEF vars, queueVars, requestVars, fgVars, bgVars,
  delegateVars, storeVars
<1>1. ASSUME NEW l \in Loaders, Send(l) PROVE (InformsOfCommitted /\
  LoadedIsCommitted)'
  BY <1>1 DEF Send, MainIdle, BetweenRequests, CommitInv, InformsOfCommitted,
    LoadedIsCommitted, TypeInv, TypeOK, UnsentIsFresh, FgPhases, BgPhases,
    ManagedSaves, Outcomes
<1>2. ASSUME NEW l \in Loaders, BeginDispatch(l) PROVE (InformsOfCommitted /\
  LoadedIsCommitted)'
  BY <1>2 DEF BeginDispatch, isUnsent, MainIdle, BetweenRequests, CommitInv,
    InformsOfCommitted, LoadedIsCommitted, TypeInv, TypeOK, FgPhases, BgPhases,
    ManagedSaves, Outcomes
<1>3. ASSUME NEW l \in Loaders, Connect(l) PROVE (InformsOfCommitted /\
  LoadedIsCommitted)'
  BY <1>3 DEF Connect, CommitInv, InformsOfCommitted, LoadedIsCommitted,
    TypeInv, TypeOK, FgPhases, BgPhases, ManagedSaves, Outcomes
<1>4. ASSUME NEW l \in Loaders, LoadFromCache(l) PROVE (InformsOfCommitted /\
  LoadedIsCommitted)'
  BY <1>4 DEF LoadFromCache, CommitInv, InformsOfCommitted, LoadedIsCommitted,
    TypeInv, TypeOK, FgPhases, BgPhases, ManagedSaves, Outcomes
<1>5. ASSUME NEW l \in Loaders, Refuse(l) PROVE (InformsOfCommitted /\
  LoadedIsCommitted)'
  BY <1>5 DEF Refuse, Tell, CommitInv, InformsOfCommitted, LoadedIsCommitted,
    TypeInv, TypeOK, FgPhases, BgPhases, ManagedSaves, Outcomes
<1>6. ASSUME NEW l \in Loaders, Answer(l) PROVE (InformsOfCommitted /\
  LoadedIsCommitted)'
  BY <1>6 DEF Answer, MainIdle, BetweenRequests, CommitInv, InformsOfCommitted,
    LoadedIsCommitted, TypeInv, TypeOK, FgPhases, BgPhases, ManagedSaves,
    Outcomes
<1>7. ASSUME NEW l \in Loaders, AnswerFails(l) PROVE (InformsOfCommitted /\
  LoadedIsCommitted)'
  BY <1>7 DEF AnswerFails, Tell, MainIdle, BetweenRequests, CommitInv,
    InformsOfCommitted, LoadedIsCommitted, TypeInv, TypeOK, FgPhases, BgPhases,
    ManagedSaves, Outcomes
<1>8. ASSUME NEW l \in Loaders, Inform(l) PROVE (InformsOfCommitted /\
  LoadedIsCommitted)'
  BY <1>8 DEF Inform, Tell, MainIdle, BetweenRequests, CommitInv,
    InformsOfCommitted, LoadedIsCommitted, TypeInv, TypeOK, FgPhases, BgPhases,
    ManagedSaves, Outcomes
<1>9. ASSUME NEW l \in Loaders, End(l) PROVE (InformsOfCommitted /\
  LoadedIsCommitted)'
  BY <1>9 DEF End, CommitInv, InformsOfCommitted, LoadedIsCommitted, TypeInv,
    TypeOK, FgPhases, BgPhases, ManagedSaves, Outcomes
<1>10. ASSUME NEW l \in Loaders, Take(l) PROVE (InformsOfCommitted /\
  LoadedIsCommitted)'
  BY <1>10 DEF Take, CommitInv, InformsOfCommitted, LoadedIsCommitted,
    TypeInv, TypeOK, FgPhases, BgPhases, ManagedSaves, Outcomes
<1>11. ASSUME NEW l \in Loaders, Decrement(l) PROVE (InformsOfCommitted /\
  LoadedIsCommitted)'
  BY <1>11 DEF Decrement, CommitInv, InformsOfCommitted, LoadedIsCommitted,
    TypeInv, TypeOK, FgPhases, BgPhases, ManagedSaves, Outcomes
<1>12. ASSUME NEW l \in Loaders, Cancel(l) PROVE (InformsOfCommitted /\
  LoadedIsCommitted)'
  BY <1>12 DEF Cancel, isUnsent, MainIdle, BetweenRequests, CommitInv,
    InformsOfCommitted, LoadedIsCommitted, TypeInv, TypeOK, FgPhases, BgPhases,
    ManagedSaves, Outcomes
<1>13. ASSUME NEW l \in Loaders, TellSaveFailed(l) PROVE (InformsOfCommitted /\
  LoadedIsCommitted)'
  BY <1>13 DEF TellSaveFailed, MainIdle, BetweenRequests, CommitInv,
    InformsOfCommitted, LoadedIsCommitted, TypeInv, TypeOK, FgPhases, BgPhases,
    ManagedSaves, Outcomes
<1>14. ASSUME NEW l \in Loaders, Map(l) PROVE (InformsOfCommitted /\
  LoadedIsCommitted)'
  BY <1>14 DEF Map, CommitInv, InformsOfCommitted, LoadedIsCommitted, TypeInv,
    TypeOK, FgPhases, BgPhases, ManagedSaves, Outcomes
<1>15. ASSUME NEW l \in Loaders, MapUnsaved(l) PROVE (InformsOfCommitted /\
  LoadedIsCommitted)'
  BY <1>15 DEF MapUnsaved, CommitInv, InformsOfCommitted, LoadedIsCommitted,
    TypeInv, TypeOK, FgPhases, BgPhases, ManagedSaves, Outcomes
<1>16. ASSUME NEW l \in Loaders, MapFails(l) PROVE (InformsOfCommitted /\
  LoadedIsCommitted)'
  BY <1>16 DEF MapFails, CommitInv, InformsOfCommitted, LoadedIsCommitted,
    TypeInv, TypeOK, FgPhases, BgPhases, ManagedSaves, Outcomes
<1>17. ASSUME NEW l \in Loaders, Save(l) PROVE (InformsOfCommitted /\
  LoadedIsCommitted)'
  BY <1>17 DEF Save, CommitInv, InformsOfCommitted, LoadedIsCommitted, TypeInv,
    TypeOK, FgPhases, BgPhases, ManagedSaves, Outcomes
<1>18. ASSUME NEW l \in Loaders, SaveFails(l) PROVE (InformsOfCommitted /\
  LoadedIsCommitted)'
  BY <1>18 DEF SaveFails, CommitInv, InformsOfCommitted, LoadedIsCommitted,
    TypeInv, TypeOK, FgPhases, BgPhases, ManagedSaves, Outcomes
<1>19. ASSUME NEW l \in Loaders, TellFailed(l) PROVE (InformsOfCommitted /\
  LoadedIsCommitted)'
  BY <1>19 DEF TellFailed, CommitInv, InformsOfCommitted, LoadedIsCommitted,
    TypeInv, TypeOK, FgPhases, BgPhases, ManagedSaves, Outcomes
<1>20. ASSUME NEW l \in Loaders, Post(l) PROVE (InformsOfCommitted /\
  LoadedIsCommitted)'
  BY <1>20 DEF Post, CommitInv, InformsOfCommitted, LoadedIsCommitted, TypeInv,
    TypeOK, FgPhases, BgPhases, ManagedSaves, Outcomes
<1>21. ASSUME NEW l \in Loaders, LookUp(l) PROVE (InformsOfCommitted /\
  LoadedIsCommitted)'
  BY <1>21 DEF LookUp, CommitInv, InformsOfCommitted, LoadedIsCommitted,
    TypeInv, TypeOK, FgPhases, BgPhases, ManagedSaves, Outcomes
<1>22. ASSUME NEW l \in Loaders, Remove(l) PROVE (InformsOfCommitted /\
  LoadedIsCommitted)'
  BY <1>22 DEF Remove, CommitInv, InformsOfCommitted, LoadedIsCommitted,
    TypeInv, TypeOK, FgPhases, BgPhases, ManagedSaves, Outcomes
<1>23. ASSUME NEW l \in Loaders, Count(l) PROVE (InformsOfCommitted /\
  LoadedIsCommitted)'
  BY <1>23 DEF Count, CommitInv, InformsOfCommitted, LoadedIsCommitted,
    TypeInv, TypeOK, FgPhases, BgPhases, ManagedSaves, Outcomes
<1>24. ASSUME NEW l \in Loaders, DecrementOffMain(l) PROVE (InformsOfCommitted
  /\ LoadedIsCommitted)'
  BY <1>24 DEF DecrementOffMain, CommitInv, InformsOfCommitted,
    LoadedIsCommitted, TypeInv, TypeOK, FgPhases, BgPhases, ManagedSaves,
    Outcomes
<1>25. CASE EndPass
  BY <1>25 DEF EndPass, BetweenRequests, CommitInv, InformsOfCommitted,
    LoadedIsCommitted, TypeInv, TypeOK, FgPhases, BgPhases, ManagedSaves,
    Outcomes
<1>26. CASE UNCHANGED vars
  BY <1>26 DEF CommitInv, InformsOfCommitted, LoadedIsCommitted, TypeInv,
    TypeOK, UnsentIsFresh, FgPhases, BgPhases, ManagedSaves, Outcomes, MainIdle,
    BetweenRequests
<1> QED
  BY <1>1, <1>2, <1>3, <1>4, <1>5, <1>6, <1>7, <1>8, <1>9, <1>10, <1>11, <1>12,
    <1>13, <1>14, <1>15, <1>16, <1>17, <1>18, <1>19, <1>20, <1>21, <1>22, <1>23,
    <1>24, <1>25, <1>26
  DEF Next, Foreground, Event, Background

LEMMA CommitInit == Init => CommitInv
BY TypeInit, LoaderAssumption
   DEF Init, CommitInv, InformsOfCommitted, LoadedIsCommitted

LEMMA CommitStep == CommitInv /\ [Next]_vars => CommitInv'
BY TypeStep, CommitStep0 DEF CommitInv


-----------------------------------------------------------------------------
(* The counter, while every load ends on the main thread.                  *)

\* A connection or a thread is at work on a queued request only if it counts
\* as loading, or the main thread is about to remove it.
WorkIsLoading ==
    /\ connected \subseteq queued \cap isLoading
    /\ \A l \in connected : bg[l] = "none"
    /\ \A l \in queued :
          bg[l] # "none" => l \in isLoading \/ fg[l] \in {"ending", "removing"}
    /\ \A l \in Loaders :
          bg[l] \notin {"ending", "removing", "counting", "decrementing"}

\* Where the main thread stands with a request it dispatches or ends.
ForegroundFacts ==
    \A l \in Loaders :
        /\ fg[l] \in {"dispatching", "ending", "removing"} => l \notin isLoading
        /\ fg[l] = "removing" => l \in queued
        /\ fg[l] = "dispatching" => l \in queued /\ fgCount = loadingCount
                                    /\ loadingCount < Limit
        /\ fg[l] = "decrementing" => l \notin queued /\ fgCount = loadingCount

CountFacts ==
    /\ \A l \in Loaders :
          StillCounted(l) => loadingCount = Cardinality(Occupied) + 1
    /\ (\A l \in Loaders : ~StillCounted(l)) =>
          loadingCount = Cardinality(Occupied)

ExactInv == TypeInv /\ (~raced => WorkIsLoading /\ ForegroundFacts /\
  CountFacts)


\* A load that has ended on a background thread stays in the history.
LEMMA RacedStays == TypeInv /\ [Next]_vars /\ ~raced' => ~raced
BY DEF TypeInv, TypeOK, Next, Foreground, Event, Background,
       vars, queueVars, requestVars, fgVars, bgVars, delegateVars, storeVars,
       Send, BeginDispatch, Connect, LoadFromCache, Refuse, Answer,
       AnswerFails, Inform, End, Take, Decrement, Cancel, TellSaveFailed, Map,
       MapUnsaved, MapFails, Save, SaveFails, TellFailed, Post, LookUp, Remove,
       Count, DecrementOffMain, EndPass

LEMMA WorkIsLoadingStep ==
    ASSUME ExactInv, ~raced, ~raced', [Next]_vars
    PROVE  WorkIsLoading'
<1> USE LoaderAssumption DEF vars, queueVars, requestVars, fgVars, bgVars,
  delegateVars, storeVars
<1>1. ASSUME NEW l \in Loaders, Send(l) PROVE WorkIsLoading'
  BY <1>1 DEF Send, MainIdle, BetweenRequests, ExactInv, WorkIsLoading,
    ForegroundFacts, TypeInv, TypeOK, UnsentIsFresh, FgPhases, BgPhases
<1>2. ASSUME NEW l \in Loaders, BeginDispatch(l) PROVE WorkIsLoading'
  BY <1>2 DEF BeginDispatch, isUnsent, MainIdle, BetweenRequests, ExactInv,
    WorkIsLoading, ForegroundFacts, TypeInv, TypeOK, FgPhases, BgPhases
<1>3. ASSUME NEW l \in Loaders, Connect(l) PROVE WorkIsLoading'
  BY <1>3 DEF Connect, ExactInv, WorkIsLoading, ForegroundFacts, TypeInv,
    TypeOK, FgPhases, BgPhases
<1>4. ASSUME NEW l \in Loaders, LoadFromCache(l) PROVE WorkIsLoading'
  BY <1>4 DEF LoadFromCache, ExactInv, WorkIsLoading, ForegroundFacts, TypeInv,
    TypeOK, FgPhases, BgPhases
<1>5. ASSUME NEW l \in Loaders, Refuse(l) PROVE WorkIsLoading'
  BY <1>5 DEF Refuse, Tell, ExactInv, WorkIsLoading, ForegroundFacts, TypeInv,
    TypeOK, FgPhases, BgPhases
<1>6. ASSUME NEW l \in Loaders, Answer(l) PROVE WorkIsLoading'
  BY <1>6 DEF Answer, MainIdle, BetweenRequests, ExactInv, WorkIsLoading,
    ForegroundFacts, TypeInv, TypeOK, FgPhases, BgPhases
<1>7. ASSUME NEW l \in Loaders, AnswerFails(l) PROVE WorkIsLoading'
  BY <1>7 DEF AnswerFails, Tell, MainIdle, BetweenRequests, ExactInv, WorkIsLoading,
    ForegroundFacts, TypeInv, TypeOK, FgPhases, BgPhases
<1>8. ASSUME NEW l \in Loaders, Inform(l) PROVE WorkIsLoading'
  BY <1>8 DEF Inform, Tell, MainIdle, BetweenRequests, ExactInv, WorkIsLoading,
    ForegroundFacts, TypeInv, TypeOK, FgPhases, BgPhases
<1>9. ASSUME NEW l \in Loaders, End(l) PROVE WorkIsLoading'
  BY <1>9 DEF End, ExactInv, WorkIsLoading, ForegroundFacts, TypeInv, TypeOK,
    FgPhases, BgPhases
<1>10. ASSUME NEW l \in Loaders, Take(l) PROVE WorkIsLoading'
  BY <1>10 DEF Take, ExactInv, WorkIsLoading, ForegroundFacts, TypeInv,
    TypeOK, FgPhases, BgPhases
<1>11. ASSUME NEW l \in Loaders, Decrement(l) PROVE WorkIsLoading'
  BY <1>11 DEF Decrement, ExactInv, WorkIsLoading, ForegroundFacts, TypeInv,
    TypeOK, FgPhases, BgPhases
<1>12. ASSUME NEW l \in Loaders, Cancel(l) PROVE WorkIsLoading'
  BY <1>12 DEF Cancel, isUnsent, MainIdle, BetweenRequests, ExactInv, WorkIsLoading,
    ForegroundFacts, TypeInv, TypeOK, FgPhases, BgPhases
<1>13. ASSUME NEW l \in Loaders, TellSaveFailed(l) PROVE WorkIsLoading'
  BY <1>13 DEF TellSaveFailed, MainIdle, BetweenRequests, ExactInv, WorkIsLoading,
    ForegroundFacts, TypeInv, TypeOK, FgPhases, BgPhases
<1>14. ASSUME NEW l \in Loaders, Map(l) PROVE WorkIsLoading'
  BY <1>14 DEF Map, ExactInv, WorkIsLoading, ForegroundFacts, TypeInv, TypeOK,
    FgPhases, BgPhases
<1>15. ASSUME NEW l \in Loaders, MapUnsaved(l) PROVE WorkIsLoading'
  BY <1>15 DEF MapUnsaved, ExactInv, WorkIsLoading, ForegroundFacts, TypeInv,
    TypeOK, FgPhases, BgPhases
<1>16. ASSUME NEW l \in Loaders, MapFails(l) PROVE WorkIsLoading'
  BY <1>16 DEF MapFails, ExactInv, WorkIsLoading, ForegroundFacts, TypeInv,
    TypeOK, FgPhases, BgPhases
<1>17. ASSUME NEW l \in Loaders, Save(l) PROVE WorkIsLoading'
  BY <1>17 DEF Save, ExactInv, WorkIsLoading, ForegroundFacts, TypeInv, TypeOK,
    FgPhases, BgPhases
<1>18. ASSUME NEW l \in Loaders, SaveFails(l) PROVE WorkIsLoading'
  BY <1>18 DEF SaveFails, ExactInv, WorkIsLoading, ForegroundFacts, TypeInv,
    TypeOK, FgPhases, BgPhases
<1>19. ASSUME NEW l \in Loaders, TellFailed(l) PROVE WorkIsLoading'
  BY <1>19 DEF TellFailed, ExactInv, WorkIsLoading, ForegroundFacts, TypeInv,
    TypeOK, FgPhases, BgPhases
<1>20. ASSUME NEW l \in Loaders, Post(l) PROVE WorkIsLoading'
  BY <1>20 DEF Post, ExactInv, WorkIsLoading, ForegroundFacts, TypeInv, TypeOK,
    FgPhases, BgPhases
<1>21. ASSUME NEW l \in Loaders, LookUp(l) PROVE WorkIsLoading'
  BY <1>21 DEF LookUp, ExactInv, WorkIsLoading, ForegroundFacts, TypeInv,
    TypeOK, FgPhases, BgPhases
<1>22. ASSUME NEW l \in Loaders, Remove(l) PROVE WorkIsLoading'
  BY <1>22 DEF Remove, ExactInv, WorkIsLoading, ForegroundFacts, TypeInv,
    TypeOK, FgPhases, BgPhases
<1>23. ASSUME NEW l \in Loaders, Count(l) PROVE WorkIsLoading'
  BY <1>23 DEF Count, ExactInv, WorkIsLoading, ForegroundFacts, TypeInv,
    TypeOK, FgPhases, BgPhases
<1>24. ASSUME NEW l \in Loaders, DecrementOffMain(l) PROVE WorkIsLoading'
  BY <1>24 DEF DecrementOffMain, ExactInv, WorkIsLoading, ForegroundFacts,
    TypeInv, TypeOK, FgPhases, BgPhases
<1>25. CASE EndPass
  BY <1>25 DEF EndPass, BetweenRequests, ExactInv, WorkIsLoading,
    ForegroundFacts, TypeInv, TypeOK, FgPhases, BgPhases
<1>26. CASE UNCHANGED vars
  BY <1>26 DEF ExactInv, WorkIsLoading, ForegroundFacts, TypeInv, TypeOK,
    UnsentIsFresh, FgPhases, BgPhases, MainIdle, BetweenRequests
<1> QED
  BY <1>1, <1>2, <1>3, <1>4, <1>5, <1>6, <1>7, <1>8, <1>9, <1>10, <1>11, <1>12,
    <1>13, <1>14, <1>15, <1>16, <1>17, <1>18, <1>19, <1>20, <1>21, <1>22, <1>23,
    <1>24, <1>25, <1>26
  DEF Next, Foreground, Event, Background

LEMMA ForegroundFactsStep ==
    ASSUME ExactInv, ~raced, ~raced', [Next]_vars
    PROVE  ForegroundFacts'
<1> USE LoaderAssumption DEF vars, queueVars, requestVars, fgVars, bgVars,
  delegateVars, storeVars
<1>1. ASSUME NEW l \in Loaders, Send(l) PROVE ForegroundFacts'
  BY <1>1 DEF Send, MainIdle, BetweenRequests, ExactInv, WorkIsLoading,
    ForegroundFacts, TypeInv, TypeOK, UnsentIsFresh, FgPhases, BgPhases
<1>2. ASSUME NEW l \in Loaders, BeginDispatch(l) PROVE ForegroundFacts'
  BY <1>2 DEF BeginDispatch, isUnsent, MainIdle, BetweenRequests, ExactInv,
    WorkIsLoading, ForegroundFacts, TypeInv, TypeOK, FgPhases, BgPhases
<1>3. ASSUME NEW l \in Loaders, Connect(l) PROVE ForegroundFacts'
  BY <1>3 DEF Connect, ExactInv, WorkIsLoading, ForegroundFacts, TypeInv,
    TypeOK, FgPhases, BgPhases
<1>4. ASSUME NEW l \in Loaders, LoadFromCache(l) PROVE ForegroundFacts'
  BY <1>4 DEF LoadFromCache, ExactInv, WorkIsLoading, ForegroundFacts, TypeInv,
    TypeOK, FgPhases, BgPhases
<1>5. ASSUME NEW l \in Loaders, Refuse(l) PROVE ForegroundFacts'
  BY <1>5 DEF Refuse, Tell, ExactInv, WorkIsLoading, ForegroundFacts, TypeInv,
    TypeOK, FgPhases, BgPhases
<1>6. ASSUME NEW l \in Loaders, Answer(l) PROVE ForegroundFacts'
  BY <1>6 DEF Answer, MainIdle, BetweenRequests, ExactInv, WorkIsLoading,
    ForegroundFacts, TypeInv, TypeOK, FgPhases, BgPhases
<1>7. ASSUME NEW l \in Loaders, AnswerFails(l) PROVE ForegroundFacts'
  BY <1>7 DEF AnswerFails, Tell, MainIdle, BetweenRequests, ExactInv, WorkIsLoading,
    ForegroundFacts, TypeInv, TypeOK, FgPhases, BgPhases
<1>8. ASSUME NEW l \in Loaders, Inform(l) PROVE ForegroundFacts'
  BY <1>8 DEF Inform, Tell, MainIdle, BetweenRequests, ExactInv, WorkIsLoading,
    ForegroundFacts, TypeInv, TypeOK, FgPhases, BgPhases
<1>9. ASSUME NEW l \in Loaders, End(l) PROVE ForegroundFacts'
  BY <1>9 DEF End, ExactInv, WorkIsLoading, ForegroundFacts, TypeInv, TypeOK,
    FgPhases, BgPhases
<1>10. ASSUME NEW l \in Loaders, Take(l) PROVE ForegroundFacts'
  BY <1>10 DEF Take, ExactInv, WorkIsLoading, ForegroundFacts, TypeInv,
    TypeOK, FgPhases, BgPhases
<1>11. ASSUME NEW l \in Loaders, Decrement(l) PROVE ForegroundFacts'
  BY <1>11 DEF Decrement, ExactInv, WorkIsLoading, ForegroundFacts, TypeInv,
    TypeOK, FgPhases, BgPhases
<1>12. ASSUME NEW l \in Loaders, Cancel(l) PROVE ForegroundFacts'
  BY <1>12 DEF Cancel, isUnsent, MainIdle, BetweenRequests, ExactInv, WorkIsLoading,
    ForegroundFacts, TypeInv, TypeOK, FgPhases, BgPhases
<1>13. ASSUME NEW l \in Loaders, TellSaveFailed(l) PROVE ForegroundFacts'
  BY <1>13 DEF TellSaveFailed, MainIdle, BetweenRequests, ExactInv, WorkIsLoading,
    ForegroundFacts, TypeInv, TypeOK, FgPhases, BgPhases
<1>14. ASSUME NEW l \in Loaders, Map(l) PROVE ForegroundFacts'
  BY <1>14 DEF Map, ExactInv, WorkIsLoading, ForegroundFacts, TypeInv, TypeOK,
    FgPhases, BgPhases
<1>15. ASSUME NEW l \in Loaders, MapUnsaved(l) PROVE ForegroundFacts'
  BY <1>15 DEF MapUnsaved, ExactInv, WorkIsLoading, ForegroundFacts, TypeInv,
    TypeOK, FgPhases, BgPhases
<1>16. ASSUME NEW l \in Loaders, MapFails(l) PROVE ForegroundFacts'
  BY <1>16 DEF MapFails, ExactInv, WorkIsLoading, ForegroundFacts, TypeInv,
    TypeOK, FgPhases, BgPhases
<1>17. ASSUME NEW l \in Loaders, Save(l) PROVE ForegroundFacts'
  BY <1>17 DEF Save, ExactInv, WorkIsLoading, ForegroundFacts, TypeInv, TypeOK,
    FgPhases, BgPhases
<1>18. ASSUME NEW l \in Loaders, SaveFails(l) PROVE ForegroundFacts'
  BY <1>18 DEF SaveFails, ExactInv, WorkIsLoading, ForegroundFacts, TypeInv,
    TypeOK, FgPhases, BgPhases
<1>19. ASSUME NEW l \in Loaders, TellFailed(l) PROVE ForegroundFacts'
  BY <1>19 DEF TellFailed, ExactInv, WorkIsLoading, ForegroundFacts, TypeInv,
    TypeOK, FgPhases, BgPhases
<1>20. ASSUME NEW l \in Loaders, Post(l) PROVE ForegroundFacts'
  BY <1>20 DEF Post, ExactInv, WorkIsLoading, ForegroundFacts, TypeInv, TypeOK,
    FgPhases, BgPhases
<1>21. ASSUME NEW l \in Loaders, LookUp(l) PROVE ForegroundFacts'
  BY <1>21 DEF LookUp, ExactInv, WorkIsLoading, ForegroundFacts, TypeInv,
    TypeOK, FgPhases, BgPhases
<1>22. ASSUME NEW l \in Loaders, Remove(l) PROVE ForegroundFacts'
  BY <1>22 DEF Remove, ExactInv, WorkIsLoading, ForegroundFacts, TypeInv,
    TypeOK, FgPhases, BgPhases
<1>23. ASSUME NEW l \in Loaders, Count(l) PROVE ForegroundFacts'
  BY <1>23 DEF Count, ExactInv, WorkIsLoading, ForegroundFacts, TypeInv,
    TypeOK, FgPhases, BgPhases
<1>24. ASSUME NEW l \in Loaders, DecrementOffMain(l) PROVE ForegroundFacts'
  BY <1>24 DEF DecrementOffMain, ExactInv, WorkIsLoading, ForegroundFacts,
    TypeInv, TypeOK, FgPhases, BgPhases
<1>25. CASE EndPass
  BY <1>25 DEF EndPass, BetweenRequests, ExactInv, WorkIsLoading,
    ForegroundFacts, TypeInv, TypeOK, FgPhases, BgPhases
<1>26. CASE UNCHANGED vars
  BY <1>26 DEF ExactInv, WorkIsLoading, ForegroundFacts, TypeInv, TypeOK,
    UnsentIsFresh, FgPhases, BgPhases, MainIdle, BetweenRequests
<1> QED
  BY <1>1, <1>2, <1>3, <1>4, <1>5, <1>6, <1>7, <1>8, <1>9, <1>10, <1>11, <1>12,
    <1>13, <1>14, <1>15, <1>16, <1>17, <1>18, <1>19, <1>20, <1>21, <1>22, <1>23,
    <1>24, <1>25, <1>26
  DEF Next, Foreground, Event, Background

\* At most one request is still counted, so the counter is what CountFacts says
\* of it in either case.
LEMMA OccupiedFinite ==
    ASSUME TypeInv
    PROVE  IsFiniteSet(Occupied) /\ Cardinality(Occupied) \in Nat
<1>1. Occupied \subseteq Loaders
  BY DEF TypeInv, TypeOK, Occupied
<1> QED
  BY <1>1, LoaderAssumption, FS_Subset, FS_CardinalityType

LEMMA CountFactsStep ==
    ASSUME ExactInv, ~raced, ~raced', [Next]_vars
    PROVE  CountFacts'
<1> USE LoaderAssumption DEF vars, queueVars, requestVars, fgVars, bgVars,
  delegateVars, storeVars
<1>1. ASSUME NEW l \in Loaders, Send(l) PROVE CountFacts'
  <2>1. l \notin isLoading
    BY <1>1 DEF Send, ExactInv, TypeInv, UnsentIsFresh
  <2>2. Occupied' = Occupied
    BY <1>1, <2>1 DEF Send, Occupied
  <2> QED BY <1>1, <2>2 DEF Send, MainIdle, BetweenRequests, ExactInv,
      CountFacts, StillCounted
<1>2. ASSUME NEW l \in Loaders, BeginDispatch(l) PROVE CountFacts'
  <2>1. Occupied' = Occupied /\ loadingCount' = loadingCount
    BY <1>2 DEF BeginDispatch, Occupied
  <2>2. \A k \in Loaders : StillCounted(k)' <=> StillCounted(k)
    BY <1>2 DEF BeginDispatch, MainIdle, BetweenRequests, ExactInv, TypeInv, TypeOK,
      StillCounted
  <2> QED BY <2>1, <2>2 DEF ExactInv, CountFacts
<1>3. ASSUME NEW l \in Loaders, Connect(l) PROVE CountFacts'
  <2>1. /\ l \in queued /\ l \notin isLoading
        /\ fgCount = loadingCount /\ loadingCount < Limit
    BY <1>3 DEF Connect, ExactInv, ForegroundFacts
  <2>2. \A k \in Loaders : ~StillCounted(k)
    BY <1>3 DEF Connect, ExactInv, TypeInv, TypeOK, StillCounted
  <2>3. loadingCount = Cardinality(Occupied)
    BY <2>2 DEF ExactInv, CountFacts
  <2>4. Occupied' = Occupied \cup {l} /\ l \notin Occupied
    BY <1>3, <2>1 DEF Connect, Occupied
  <2>5. Cardinality(Occupied') = Cardinality(Occupied) + 1
    BY <2>4, OccupiedFinite, FS_AddElement DEF ExactInv
  <2>6. loadingCount' = loadingCount + 1
    BY <1>3, <2>1, CountSteps DEF Connect, ExactInv, TypeInv, TypeOK
  <2>7. \A k \in Loaders : ~StillCounted(k)'
    BY <1>3 DEF Connect, ExactInv, TypeInv, TypeOK, StillCounted
  <2> QED BY <2>3, <2>5, <2>6, <2>7 DEF CountFacts
<1>4. ASSUME NEW l \in Loaders, LoadFromCache(l) PROVE CountFacts'
  <2>1. /\ l \in queued /\ l \notin isLoading
        /\ fgCount = loadingCount /\ loadingCount < Limit
    BY <1>4 DEF LoadFromCache, ExactInv, ForegroundFacts
  <2>2. \A k \in Loaders : ~StillCounted(k)
    BY <1>4 DEF LoadFromCache, ExactInv, TypeInv, TypeOK, StillCounted
  <2>3. loadingCount = Cardinality(Occupied)
    BY <2>2 DEF ExactInv, CountFacts
  <2>4. Occupied' = Occupied \cup {l} /\ l \notin Occupied
    BY <1>4, <2>1 DEF LoadFromCache, Occupied
  <2>5. Cardinality(Occupied') = Cardinality(Occupied) + 1
    BY <2>4, OccupiedFinite, FS_AddElement DEF ExactInv
  <2>6. loadingCount' = loadingCount + 1
    BY <1>4, <2>1, CountSteps DEF LoadFromCache, ExactInv, TypeInv, TypeOK
  <2>7. \A k \in Loaders : ~StillCounted(k)'
    BY <1>4 DEF LoadFromCache, ExactInv, TypeInv, TypeOK, StillCounted
  <2> QED BY <2>3, <2>5, <2>6, <2>7 DEF CountFacts
<1>5. ASSUME NEW l \in Loaders, Refuse(l) PROVE CountFacts'
  <2>1. /\ l \in queued /\ l \notin isLoading
        /\ fgCount = loadingCount /\ loadingCount < Limit
    BY <1>5 DEF Refuse, ExactInv, ForegroundFacts
  <2>2. \A k \in Loaders : ~StillCounted(k)
    BY <1>5 DEF Refuse, ExactInv, TypeInv, TypeOK, StillCounted
  <2>3. loadingCount = Cardinality(Occupied)
    BY <2>2 DEF ExactInv, CountFacts
  <2>4. Occupied' = Occupied
    BY <1>5 DEF Refuse, Occupied
  <2>5. loadingCount' = loadingCount + 1
    BY <1>5, <2>1, CountSteps DEF Refuse, ExactInv, TypeInv, TypeOK
  <2>6. StillCounted(l)'
    BY <1>5, <2>1 DEF Refuse, ExactInv, TypeInv, TypeOK, StillCounted
  <2> QED BY <2>3, <2>4, <2>5, <2>6 DEF CountFacts
<1>6. ASSUME NEW l \in Loaders, Answer(l) PROVE CountFacts'
  <2>1. Occupied' = Occupied /\ loadingCount' = loadingCount
    BY <1>6 DEF Answer, Occupied
  <2>2. \A k \in Loaders : StillCounted(k)' <=> StillCounted(k)
    BY <1>6 DEF Answer, MainIdle, BetweenRequests, ExactInv, TypeInv, TypeOK,
      StillCounted
  <2> QED BY <2>1, <2>2 DEF ExactInv, CountFacts
<1>7. ASSUME NEW l \in Loaders, AnswerFails(l) PROVE CountFacts'
  <2>1. l \in queued /\ l \in isLoading
    BY <1>7 DEF AnswerFails, ExactInv, WorkIsLoading
  <2>2. \A k \in Loaders : ~StillCounted(k)
    BY <1>7 DEF AnswerFails, MainIdle, BetweenRequests, StillCounted
  <2>3. loadingCount = Cardinality(Occupied)
    BY <2>2 DEF ExactInv, CountFacts
  <2>4. Occupied' = Occupied \ {l} /\ l \in Occupied
    BY <1>7, <2>1 DEF AnswerFails, Occupied
  <2>5. Cardinality(Occupied') = Cardinality(Occupied) - 1
    BY <2>4, OccupiedFinite, FS_RemoveElement DEF ExactInv
  <2>6. StillCounted(l)'
    BY <1>7, <2>1 DEF AnswerFails, ExactInv, TypeInv, TypeOK, StillCounted
  <2>7. loadingCount' = Cardinality(Occupied') + 1
    BY <1>7, <2>3, <2>5, OccupiedFinite DEF AnswerFails, ExactInv
  <2> QED BY <2>6, <2>7 DEF CountFacts
<1>8. ASSUME NEW l \in Loaders, Inform(l) PROVE CountFacts'
  <2>1. l \in queued => l \in isLoading
    BY <1>8 DEF Inform, MainIdle, BetweenRequests, ExactInv, WorkIsLoading
  <2>2. \A k \in Loaders : ~StillCounted(k)
    BY <1>8 DEF Inform, MainIdle, BetweenRequests, StillCounted
  <2>3. loadingCount = Cardinality(Occupied)
    BY <2>2 DEF ExactInv, CountFacts
  <2>4. CASE l \in queued
    <3>1. Occupied' = Occupied \ {l} /\ l \in Occupied
      BY <1>8, <2>1, <2>4 DEF Inform, Occupied
    <3>2. Cardinality(Occupied') = Cardinality(Occupied) - 1
      BY <3>1, OccupiedFinite, FS_RemoveElement DEF ExactInv
    <3>3. StillCounted(l)'
      BY <1>8, <2>4 DEF Inform, ExactInv, TypeInv, TypeOK, StillCounted
    <3>4. loadingCount' = Cardinality(Occupied') + 1
      BY <1>8, <2>3, <3>2, OccupiedFinite DEF Inform, ExactInv
    <3> QED BY <3>3, <3>4 DEF CountFacts
  <2>5. CASE l \notin queued
    <3>1. Occupied' = Occupied
      BY <1>8, <2>5 DEF Inform, Occupied
    <3>2. \A k \in Loaders : ~StillCounted(k)'
      BY <1>8, <2>5 DEF Inform, MainIdle, BetweenRequests, ExactInv, TypeInv,
        TypeOK, StillCounted
    <3> QED BY <1>8, <2>3, <3>1, <3>2 DEF Inform, CountFacts
  <2> QED BY <2>4, <2>5
<1>9. ASSUME NEW l \in Loaders, End(l) PROVE CountFacts'
  <2>1. Occupied' = Occupied /\ loadingCount' = loadingCount
    BY <1>9 DEF End, Occupied
  <2>2. \A k \in Loaders : StillCounted(k)' <=> StillCounted(k)
    BY <1>9 DEF End, ExactInv, TypeInv, TypeOK, StillCounted
  <2> QED BY <2>1, <2>2 DEF ExactInv, CountFacts
<1>10. ASSUME NEW l \in Loaders, Take(l) PROVE CountFacts'
  <2>1. l \notin isLoading
    BY <1>10 DEF Take, ExactInv, ForegroundFacts
  <2>2. Occupied' = Occupied
    BY <1>10, <2>1 DEF Take, Occupied
  <2>3. \A k \in Loaders : StillCounted(k)' <=> StillCounted(k)
    BY <1>10 DEF Take, ExactInv, TypeInv, TypeOK, StillCounted
  <2> QED BY <1>10, <2>2, <2>3 DEF Take, ExactInv, CountFacts
<1>11. ASSUME NEW l \in Loaders, Decrement(l) PROVE CountFacts'
  <2>1. fgCount = loadingCount /\ loadingCount = Cardinality(Occupied) + 1
    BY <1>11 DEF Decrement, ExactInv, ForegroundFacts, CountFacts, StillCounted
  <2>2. Occupied' = Occupied
    BY <1>11 DEF Decrement, Occupied
  <2>3. loadingCount' = loadingCount - 1
    BY <1>11, <2>1, OccupiedFinite, CountSteps
       DEF Decrement, ExactInv, TypeInv, TypeOK
  <2>4. \A k \in Loaders : ~StillCounted(k)'
    BY <1>11 DEF Decrement, ExactInv, TypeInv, TypeOK, StillCounted
  <2> QED BY <2>1, <2>2, <2>3, <2>4, OccupiedFinite DEF CountFacts, ExactInv
<1>12. ASSUME NEW l \in Loaders, Cancel(l) PROVE CountFacts'
  <2>1. \A k \in Loaders : ~StillCounted(k)
    BY <1>12 DEF Cancel, MainIdle, BetweenRequests, StillCounted
  <2>2. loadingCount = Cardinality(Occupied)
    BY <2>1 DEF ExactInv, CountFacts
  <2>3. CASE l \in isLoading /\ isLoading' = isLoading \ {l}
    <3>1. Occupied' = Occupied \ {l} /\ l \in Occupied
      BY <1>12, <2>3 DEF Cancel, Occupied
    <3>2. Cardinality(Occupied') = Cardinality(Occupied) - 1
      BY <3>1, OccupiedFinite, FS_RemoveElement DEF ExactInv
    <3>3. fg' = [fg EXCEPT ![l] = "ending"] /\ l \in queued'
      BY <1>12, <2>3 DEF Cancel, isUnsent
    <3>4. StillCounted(l)'
      BY <3>3 DEF ExactInv, TypeInv, TypeOK, StillCounted
    <3>5. loadingCount' = Cardinality(Occupied') + 1
      BY <1>12, <2>2, <3>2, OccupiedFinite DEF Cancel, ExactInv
    <3> QED BY <3>4, <3>5 DEF CountFacts
  <2>4. CASE isUnsent(l) /\ UNCHANGED <<isLoading, fg>>
    <3>1. Occupied' = Occupied
      BY <1>12, <2>4 DEF Cancel, isUnsent, Occupied
    <3> QED BY <1>12, <2>1, <2>2, <2>4, <3>1
            DEF Cancel, MainIdle, BetweenRequests, CountFacts, StillCounted
  <2> QED BY <1>12, <2>3, <2>4 DEF Cancel
<1>13. ASSUME NEW l \in Loaders, TellSaveFailed(l) PROVE CountFacts'
  <2>1. Occupied' = Occupied /\ loadingCount' = loadingCount
    BY <1>13 DEF TellSaveFailed, Occupied
  <2>2. \A k \in Loaders : StillCounted(k)' <=> StillCounted(k)
    BY <1>13 DEF TellSaveFailed, MainIdle, BetweenRequests, ExactInv, TypeInv,
      TypeOK, StillCounted
  <2> QED BY <2>1, <2>2 DEF ExactInv, CountFacts
<1>14. ASSUME NEW l \in Loaders, Map(l) PROVE CountFacts'
  <2>1. Occupied' = Occupied /\ loadingCount' = loadingCount
    BY <1>14 DEF Map, Occupied
  <2>2. \A k \in Loaders : StillCounted(k)' <=> StillCounted(k)
    BY <1>14 DEF Map, ExactInv, TypeInv, TypeOK, StillCounted
  <2> QED BY <2>1, <2>2 DEF ExactInv, CountFacts
<1>15. ASSUME NEW l \in Loaders, MapUnsaved(l) PROVE CountFacts'
  <2>1. Occupied' = Occupied /\ loadingCount' = loadingCount
    BY <1>15 DEF MapUnsaved, Occupied
  <2>2. \A k \in Loaders : StillCounted(k)' <=> StillCounted(k)
    BY <1>15 DEF MapUnsaved, ExactInv, TypeInv, TypeOK, StillCounted
  <2> QED BY <2>1, <2>2 DEF ExactInv, CountFacts
<1>16. ASSUME NEW l \in Loaders, MapFails(l) PROVE CountFacts'
  <2>1. Occupied' = Occupied /\ loadingCount' = loadingCount
    BY <1>16 DEF MapFails, Occupied
  <2>2. \A k \in Loaders : StillCounted(k)' <=> StillCounted(k)
    BY <1>16 DEF MapFails, ExactInv, TypeInv, TypeOK, StillCounted
  <2> QED BY <2>1, <2>2 DEF ExactInv, CountFacts
<1>17. ASSUME NEW l \in Loaders, Save(l) PROVE CountFacts'
  <2>1. Occupied' = Occupied /\ loadingCount' = loadingCount
    BY <1>17 DEF Save, Occupied
  <2>2. \A k \in Loaders : StillCounted(k)' <=> StillCounted(k)
    BY <1>17 DEF Save, ExactInv, TypeInv, TypeOK, StillCounted
  <2> QED BY <2>1, <2>2 DEF ExactInv, CountFacts
<1>18. ASSUME NEW l \in Loaders, SaveFails(l) PROVE CountFacts'
  <2>1. Occupied' = Occupied /\ loadingCount' = loadingCount
    BY <1>18 DEF SaveFails, Occupied
  <2>2. \A k \in Loaders : StillCounted(k)' <=> StillCounted(k)
    BY <1>18 DEF SaveFails, ExactInv, TypeInv, TypeOK, StillCounted
  <2> QED BY <2>1, <2>2 DEF ExactInv, CountFacts
<1>19. ASSUME NEW l \in Loaders, TellFailed(l) PROVE CountFacts'
  <2>1. Occupied' = Occupied /\ loadingCount' = loadingCount
    BY <1>19 DEF TellFailed, Occupied
  <2>2. \A k \in Loaders : StillCounted(k)' <=> StillCounted(k)
    BY <1>19 DEF TellFailed, ExactInv, TypeInv, TypeOK, StillCounted
  <2> QED BY <2>1, <2>2 DEF ExactInv, CountFacts
<1>20. ASSUME NEW l \in Loaders, Post(l) PROVE CountFacts'
  BY <1>20 DEF Post, ExactInv, WorkIsLoading, TypeInv, TypeOK
<1>21. ASSUME NEW l \in Loaders, LookUp(l) PROVE CountFacts'
  BY <1>21 DEF LookUp, ExactInv, WorkIsLoading, TypeInv, TypeOK
<1>22. ASSUME NEW l \in Loaders, Remove(l) PROVE CountFacts'
  BY <1>22 DEF Remove, ExactInv, WorkIsLoading, TypeInv, TypeOK
<1>23. ASSUME NEW l \in Loaders, Count(l) PROVE CountFacts'
  BY <1>23 DEF Count, ExactInv, WorkIsLoading, TypeInv, TypeOK
<1>24. ASSUME NEW l \in Loaders, DecrementOffMain(l) PROVE CountFacts'
  BY <1>24 DEF DecrementOffMain, ExactInv, WorkIsLoading, TypeInv, TypeOK
<1>25. CASE EndPass
  BY <1>25 DEF EndPass, ExactInv, CountFacts, StillCounted, Occupied
<1>26. CASE UNCHANGED vars
  BY <1>26 DEF ExactInv, CountFacts, StillCounted, Occupied, MainIdle,
    BetweenRequests
<1> QED
  BY <1>1, <1>2, <1>3, <1>4, <1>5, <1>6, <1>7, <1>8, <1>9, <1>10, <1>11, <1>12,
    <1>13, <1>14, <1>15, <1>16, <1>17, <1>18, <1>19, <1>20, <1>21, <1>22, <1>23,
    <1>24, <1>25, <1>26
  DEF Next, Foreground, Event, Background

LEMMA ExactInit == Init => ExactInv
<1> SUFFICES ASSUME Init PROVE ExactInv
  OBVIOUS
<1>1. WorkIsLoading /\ ForegroundFacts
  BY DEF Init, WorkIsLoading, ForegroundFacts
<1>2. Occupied = {} /\ \A l \in Loaders : ~StillCounted(l)
  BY DEF Init, Occupied, StillCounted
<1>3. CountFacts
  BY <1>2, FS_EmptySet DEF Init, CountFacts
<1> QED
  BY <1>1, <1>3, TypeInit DEF ExactInv

LEMMA ExactStep == ExactInv /\ [Next]_vars => ExactInv'
<1> SUFFICES ASSUME ExactInv, [Next]_vars PROVE ExactInv'
  OBVIOUS
<1>1. TypeInv'
  BY TypeStep DEF ExactInv
<1>2. ASSUME ~raced'
      PROVE  WorkIsLoading' /\ ForegroundFacts' /\ CountFacts'
  BY <1>2, RacedStays, WorkIsLoadingStep, ForegroundFactsStep, CountFactsStep
     DEF ExactInv
<1> QED
  BY <1>1, <1>2 DEF ExactInv


-----------------------------------------------------------------------------
(* A load ends once.                                                       *)

\* Once its delegate has been told an outcome, nothing that could tell it
\* another is under way.
ToldIsOver ==
    \A l \in Loaders : told[l] # "nothing" =>
        /\ l \notin connected
        /\ fg[l] # "dispatching"
        /\ bg[l] \in {"none", "posting", "stuck"}
        /\ l \in queued => fg[l] \in {"ending", "removing"} \/ bg[l] # "none"

EndInv == ExactInv /\ (~raced => ToldIsOver)

LEMMA ToldIsOverStep ==
    ASSUME EndInv, ~raced, ~raced', [Next]_vars
    PROVE  ToldIsOver'
<1> USE LoaderAssumption DEF vars, queueVars, requestVars, fgVars, bgVars,
  delegateVars, storeVars
<1>1. ASSUME NEW l \in Loaders, Send(l) PROVE ToldIsOver'
  BY <1>1 DEF Send, MainIdle, BetweenRequests, EndInv, ExactInv, ToldIsOver,
    WorkIsLoading, ForegroundFacts, TypeInv, TypeOK, UnsentIsFresh, Outcomes
<1>2. ASSUME NEW l \in Loaders, BeginDispatch(l) PROVE ToldIsOver'
  BY <1>2 DEF BeginDispatch, isUnsent, MainIdle, BetweenRequests, EndInv,
    ExactInv, ToldIsOver, WorkIsLoading, ForegroundFacts, TypeInv, TypeOK,
    Outcomes
<1>3. ASSUME NEW l \in Loaders, Connect(l) PROVE ToldIsOver'
  BY <1>3 DEF Connect, EndInv, ExactInv, ToldIsOver, WorkIsLoading,
    ForegroundFacts, TypeInv, TypeOK, Outcomes
<1>4. ASSUME NEW l \in Loaders, LoadFromCache(l) PROVE ToldIsOver'
  BY <1>4 DEF LoadFromCache, EndInv, ExactInv, ToldIsOver, WorkIsLoading,
    ForegroundFacts, TypeInv, TypeOK, Outcomes
<1>5. ASSUME NEW l \in Loaders, Refuse(l) PROVE ToldIsOver'
  BY <1>5 DEF Refuse, Tell, EndInv, ExactInv, ToldIsOver, WorkIsLoading,
    ForegroundFacts, TypeInv, TypeOK, Outcomes
<1>6. ASSUME NEW l \in Loaders, Answer(l) PROVE ToldIsOver'
  BY <1>6 DEF Answer, MainIdle, BetweenRequests, EndInv, ExactInv, ToldIsOver,
    WorkIsLoading, ForegroundFacts, TypeInv, TypeOK, Outcomes
<1>7. ASSUME NEW l \in Loaders, AnswerFails(l) PROVE ToldIsOver'
  BY <1>7 DEF AnswerFails, Tell, MainIdle, BetweenRequests, EndInv, ExactInv,
    ToldIsOver, WorkIsLoading, ForegroundFacts, TypeInv, TypeOK, Outcomes
<1>8. ASSUME NEW l \in Loaders, Inform(l) PROVE ToldIsOver'
  BY <1>8 DEF Inform, Tell, MainIdle, BetweenRequests, EndInv, ExactInv, ToldIsOver,
    WorkIsLoading, ForegroundFacts, TypeInv, TypeOK, Outcomes
<1>9. ASSUME NEW l \in Loaders, End(l) PROVE ToldIsOver'
  BY <1>9 DEF End, EndInv, ExactInv, ToldIsOver, WorkIsLoading,
    ForegroundFacts, TypeInv, TypeOK, Outcomes
<1>10. ASSUME NEW l \in Loaders, Take(l) PROVE ToldIsOver'
  BY <1>10 DEF Take, EndInv, ExactInv, ToldIsOver, WorkIsLoading,
    ForegroundFacts, TypeInv, TypeOK, Outcomes
<1>11. ASSUME NEW l \in Loaders, Decrement(l) PROVE ToldIsOver'
  BY <1>11 DEF Decrement, EndInv, ExactInv, ToldIsOver, WorkIsLoading,
    ForegroundFacts, TypeInv, TypeOK, Outcomes
<1>12. ASSUME NEW l \in Loaders, Cancel(l) PROVE ToldIsOver'
  BY <1>12 DEF Cancel, isUnsent, MainIdle, BetweenRequests, EndInv, ExactInv,
    ToldIsOver, WorkIsLoading, ForegroundFacts, TypeInv, TypeOK, Outcomes
<1>13. ASSUME NEW l \in Loaders, TellSaveFailed(l) PROVE ToldIsOver'
  BY <1>13 DEF TellSaveFailed, MainIdle, BetweenRequests, EndInv, ExactInv,
    ToldIsOver, WorkIsLoading, ForegroundFacts, TypeInv, TypeOK, Outcomes
<1>14. ASSUME NEW l \in Loaders, Map(l) PROVE ToldIsOver'
  BY <1>14 DEF Map, EndInv, ExactInv, ToldIsOver, WorkIsLoading,
    ForegroundFacts, TypeInv, TypeOK, Outcomes
<1>15. ASSUME NEW l \in Loaders, MapUnsaved(l) PROVE ToldIsOver'
  BY <1>15 DEF MapUnsaved, EndInv, ExactInv, ToldIsOver, WorkIsLoading,
    ForegroundFacts, TypeInv, TypeOK, Outcomes
<1>16. ASSUME NEW l \in Loaders, MapFails(l) PROVE ToldIsOver'
  BY <1>16 DEF MapFails, EndInv, ExactInv, ToldIsOver, WorkIsLoading,
    ForegroundFacts, TypeInv, TypeOK, Outcomes
<1>17. ASSUME NEW l \in Loaders, Save(l) PROVE ToldIsOver'
  BY <1>17 DEF Save, EndInv, ExactInv, ToldIsOver, WorkIsLoading,
    ForegroundFacts, TypeInv, TypeOK, Outcomes
<1>18. ASSUME NEW l \in Loaders, SaveFails(l) PROVE ToldIsOver'
  BY <1>18 DEF SaveFails, EndInv, ExactInv, ToldIsOver, WorkIsLoading,
    ForegroundFacts, TypeInv, TypeOK, Outcomes
<1>19. ASSUME NEW l \in Loaders, TellFailed(l) PROVE ToldIsOver'
  BY <1>19 DEF TellFailed, EndInv, ExactInv, ToldIsOver, WorkIsLoading,
    ForegroundFacts, TypeInv, TypeOK, Outcomes
<1>20. ASSUME NEW l \in Loaders, Post(l) PROVE ToldIsOver'
  BY <1>20 DEF Post, EndInv, ExactInv, ToldIsOver, WorkIsLoading,
    ForegroundFacts, TypeInv, TypeOK, Outcomes
<1>21. ASSUME NEW l \in Loaders, LookUp(l) PROVE ToldIsOver'
  BY <1>21 DEF LookUp, EndInv, ExactInv, ToldIsOver, WorkIsLoading,
    ForegroundFacts, TypeInv, TypeOK, Outcomes
<1>22. ASSUME NEW l \in Loaders, Remove(l) PROVE ToldIsOver'
  BY <1>22 DEF Remove, EndInv, ExactInv, ToldIsOver, WorkIsLoading,
    ForegroundFacts, TypeInv, TypeOK, Outcomes
<1>23. ASSUME NEW l \in Loaders, Count(l) PROVE ToldIsOver'
  BY <1>23 DEF Count, EndInv, ExactInv, ToldIsOver, WorkIsLoading,
    ForegroundFacts, TypeInv, TypeOK, Outcomes
<1>24. ASSUME NEW l \in Loaders, DecrementOffMain(l) PROVE ToldIsOver'
  BY <1>24 DEF DecrementOffMain, EndInv, ExactInv, ToldIsOver, WorkIsLoading,
    ForegroundFacts, TypeInv, TypeOK, Outcomes
<1>25. CASE EndPass
  BY <1>25 DEF EndPass, BetweenRequests, EndInv, ExactInv, ToldIsOver,
    WorkIsLoading, ForegroundFacts, TypeInv, TypeOK, Outcomes
<1>26. CASE UNCHANGED vars
  BY <1>26 DEF EndInv, ExactInv, ToldIsOver, WorkIsLoading, ForegroundFacts,
    TypeInv, TypeOK, UnsentIsFresh, Outcomes, MainIdle, BetweenRequests
<1> QED
  BY <1>1, <1>2, <1>3, <1>4, <1>5, <1>6, <1>7, <1>8, <1>9, <1>10, <1>11, <1>12,
    <1>13, <1>14, <1>15, <1>16, <1>17, <1>18, <1>19, <1>20, <1>21, <1>22, <1>23,
    <1>24, <1>25, <1>26
  DEF Next, Foreground, Event, Background

LEMMA EndInit == Init => EndInv
BY ExactInit DEF Init, EndInv, ToldIsOver

LEMMA EndStep == EndInv /\ [Next]_vars => EndInv'
<1> SUFFICES ASSUME EndInv, [Next]_vars PROVE EndInv'
  OBVIOUS
<1>1. ExactInv'
  BY ExactStep DEF EndInv
<1>2. ASSUME ~raced' PROVE ToldIsOver'
  BY <1>2, RacedStays, ToldIsOverStep DEF EndInv, ExactInv
<1> QED
  BY <1>1, <1>2 DEF EndInv

\* While ~raced, a told delegate hears nothing else and its loader gets no
\* connection.
EndsOnceNow ==
    ~raced => \A k \in Loaders : told[k] # "nothing" =>
        told'[k] = told[k] /\ (k \in connected' => k \in connected)

LEMMA EndsOnceStep ==
    ASSUME EndInv, [Next]_vars
    PROVE  EndsOnceNow
<1> USE LoaderAssumption DEF vars, queueVars, requestVars, fgVars, bgVars,
  delegateVars, storeVars
<1>1. ASSUME NEW l \in Loaders, Send(l) PROVE EndsOnceNow
  BY <1>1 DEF EndsOnceNow, Send, MainIdle, BetweenRequests, EndInv, ExactInv,
    ToldIsOver, WorkIsLoading, ForegroundFacts, TypeInv, TypeOK, Outcomes
<1>2. ASSUME NEW l \in Loaders, BeginDispatch(l) PROVE EndsOnceNow
  BY <1>2 DEF EndsOnceNow, BeginDispatch, isUnsent, MainIdle, BetweenRequests,
    EndInv, ExactInv, ToldIsOver, WorkIsLoading, ForegroundFacts, TypeInv,
    TypeOK, Outcomes
<1>3. ASSUME NEW l \in Loaders, Connect(l) PROVE EndsOnceNow
  BY <1>3 DEF EndsOnceNow, Connect, EndInv, ExactInv, ToldIsOver,
    WorkIsLoading,
    ForegroundFacts, TypeInv, TypeOK, Outcomes
<1>4. ASSUME NEW l \in Loaders, LoadFromCache(l) PROVE EndsOnceNow
  BY <1>4 DEF EndsOnceNow, LoadFromCache, EndInv, ExactInv, ToldIsOver,
    WorkIsLoading,
    ForegroundFacts, TypeInv, TypeOK, Outcomes
<1>5. ASSUME NEW l \in Loaders, Refuse(l) PROVE EndsOnceNow
  BY <1>5 DEF EndsOnceNow, Refuse, Tell, EndInv, ExactInv, ToldIsOver,
    WorkIsLoading,
    ForegroundFacts, TypeInv, TypeOK, Outcomes
<1>6. ASSUME NEW l \in Loaders, Answer(l) PROVE EndsOnceNow
  BY <1>6 DEF EndsOnceNow, Answer, MainIdle, BetweenRequests, EndInv, ExactInv,
    ToldIsOver, WorkIsLoading, ForegroundFacts, TypeInv, TypeOK, Outcomes
<1>7. ASSUME NEW l \in Loaders, AnswerFails(l) PROVE EndsOnceNow
  BY <1>7 DEF EndsOnceNow, AnswerFails, Tell, MainIdle, BetweenRequests, EndInv,
    ExactInv, ToldIsOver, WorkIsLoading, ForegroundFacts, TypeInv, TypeOK,
    Outcomes
<1>8. ASSUME NEW l \in Loaders, Inform(l) PROVE EndsOnceNow
  BY <1>8 DEF EndsOnceNow, Inform, Tell, MainIdle, BetweenRequests, EndInv,
    ExactInv, ToldIsOver, WorkIsLoading, ForegroundFacts, TypeInv, TypeOK,
    Outcomes
<1>9. ASSUME NEW l \in Loaders, End(l) PROVE EndsOnceNow
  BY <1>9 DEF EndsOnceNow, End, EndInv, ExactInv, ToldIsOver, WorkIsLoading,
    ForegroundFacts, TypeInv, TypeOK, Outcomes
<1>10. ASSUME NEW l \in Loaders, Take(l) PROVE EndsOnceNow
  BY <1>10 DEF EndsOnceNow, Take, EndInv, ExactInv, ToldIsOver,
    WorkIsLoading,
    ForegroundFacts, TypeInv, TypeOK, Outcomes
<1>11. ASSUME NEW l \in Loaders, Decrement(l) PROVE EndsOnceNow
  BY <1>11 DEF EndsOnceNow, Decrement, EndInv, ExactInv, ToldIsOver,
    WorkIsLoading,
    ForegroundFacts, TypeInv, TypeOK, Outcomes
<1>12. ASSUME NEW l \in Loaders, Cancel(l) PROVE EndsOnceNow
  BY <1>12 DEF EndsOnceNow, Cancel, isUnsent, MainIdle, BetweenRequests, EndInv,
    ExactInv, ToldIsOver, WorkIsLoading, ForegroundFacts, TypeInv, TypeOK,
    Outcomes
<1>13. ASSUME NEW l \in Loaders, TellSaveFailed(l) PROVE EndsOnceNow
  BY <1>13 DEF EndsOnceNow, TellSaveFailed, MainIdle, BetweenRequests, EndInv,
    ExactInv, ToldIsOver, WorkIsLoading, ForegroundFacts, TypeInv, TypeOK,
    Outcomes
<1>14. ASSUME NEW l \in Loaders, Map(l) PROVE EndsOnceNow
  BY <1>14 DEF EndsOnceNow, Map, EndInv, ExactInv, ToldIsOver, WorkIsLoading,
    ForegroundFacts, TypeInv, TypeOK, Outcomes
<1>15. ASSUME NEW l \in Loaders, MapUnsaved(l) PROVE EndsOnceNow
  BY <1>15 DEF EndsOnceNow, MapUnsaved, EndInv, ExactInv, ToldIsOver,
    WorkIsLoading,
    ForegroundFacts, TypeInv, TypeOK, Outcomes
<1>16. ASSUME NEW l \in Loaders, MapFails(l) PROVE EndsOnceNow
  BY <1>16 DEF EndsOnceNow, MapFails, EndInv, ExactInv, ToldIsOver,
    WorkIsLoading,
    ForegroundFacts, TypeInv, TypeOK, Outcomes
<1>17. ASSUME NEW l \in Loaders, Save(l) PROVE EndsOnceNow
  BY <1>17 DEF EndsOnceNow, Save, EndInv, ExactInv, ToldIsOver, WorkIsLoading,
    ForegroundFacts, TypeInv, TypeOK, Outcomes
<1>18. ASSUME NEW l \in Loaders, SaveFails(l) PROVE EndsOnceNow
  BY <1>18 DEF EndsOnceNow, SaveFails, EndInv, ExactInv, ToldIsOver,
    WorkIsLoading,
    ForegroundFacts, TypeInv, TypeOK, Outcomes
<1>19. ASSUME NEW l \in Loaders, TellFailed(l) PROVE EndsOnceNow
  BY <1>19 DEF EndsOnceNow, TellFailed, EndInv, ExactInv, ToldIsOver,
    WorkIsLoading,
    ForegroundFacts, TypeInv, TypeOK, Outcomes
<1>20. ASSUME NEW l \in Loaders, Post(l) PROVE EndsOnceNow
  BY <1>20 DEF EndsOnceNow, Post, EndInv, ExactInv, ToldIsOver, WorkIsLoading,
    ForegroundFacts, TypeInv, TypeOK, Outcomes
<1>21. ASSUME NEW l \in Loaders, LookUp(l) PROVE EndsOnceNow
  BY <1>21 DEF EndsOnceNow, LookUp, EndInv, ExactInv, ToldIsOver,
    WorkIsLoading,
    ForegroundFacts, TypeInv, TypeOK, Outcomes
<1>22. ASSUME NEW l \in Loaders, Remove(l) PROVE EndsOnceNow
  BY <1>22 DEF EndsOnceNow, Remove, EndInv, ExactInv, ToldIsOver,
    WorkIsLoading,
    ForegroundFacts, TypeInv, TypeOK, Outcomes
<1>23. ASSUME NEW l \in Loaders, Count(l) PROVE EndsOnceNow
  BY <1>23 DEF EndsOnceNow, Count, EndInv, ExactInv, ToldIsOver,
    WorkIsLoading,
    ForegroundFacts, TypeInv, TypeOK, Outcomes
<1>24. ASSUME NEW l \in Loaders, DecrementOffMain(l) PROVE EndsOnceNow
  BY <1>24 DEF EndsOnceNow, DecrementOffMain, EndInv, ExactInv, ToldIsOver,
    WorkIsLoading,
    ForegroundFacts, TypeInv, TypeOK, Outcomes
<1>25. CASE EndPass
  BY <1>25 DEF EndsOnceNow, EndPass, BetweenRequests, EndInv, ExactInv, ToldIsOver,
    WorkIsLoading,
    ForegroundFacts, TypeInv, TypeOK, Outcomes
<1>26. CASE UNCHANGED vars
  BY <1>26 DEF EndsOnceNow, EndInv, ExactInv, ToldIsOver, WorkIsLoading,
    ForegroundFacts,
    TypeInv, TypeOK, Outcomes, MainIdle, BetweenRequests
<1> QED
  BY <1>1, <1>2, <1>3, <1>4, <1>5, <1>6, <1>7, <1>8, <1>9, <1>10, <1>11, <1>12,
    <1>13, <1>14, <1>15, <1>16, <1>17, <1>18, <1>19, <1>20, <1>21, <1>22, <1>23,
    <1>24, <1>25, <1>26
  DEF Next, Foreground, Event, Background

\* A detached delegate hears only of a failure that was being reported.
DetachedNow ==
    \A k \in detached :
        told'[k] # told[k] => bg[k] \in {"telling", "saveFailed"}

LEMMA DetachedStep ==
    ASSUME TypeInv, [Next]_vars
    PROVE  DetachedNow
<1> USE LoaderAssumption DEF vars, queueVars, requestVars, fgVars, bgVars,
  delegateVars, storeVars
<1>1. ASSUME NEW l \in Loaders, Send(l) PROVE DetachedNow
  BY <1>1 DEF DetachedNow, Send, MainIdle, BetweenRequests, TypeInv, TypeOK
<1>2. ASSUME NEW l \in Loaders, BeginDispatch(l) PROVE DetachedNow
  BY <1>2 DEF DetachedNow, BeginDispatch, isUnsent, MainIdle, BetweenRequests,
    TypeInv, TypeOK
<1>3. ASSUME NEW l \in Loaders, Connect(l) PROVE DetachedNow
  BY <1>3 DEF DetachedNow, Connect, TypeInv, TypeOK
<1>4. ASSUME NEW l \in Loaders, LoadFromCache(l) PROVE DetachedNow
  BY <1>4 DEF DetachedNow, LoadFromCache, TypeInv, TypeOK
<1>5. ASSUME NEW l \in Loaders, Refuse(l) PROVE DetachedNow
  BY <1>5 DEF DetachedNow, Refuse, Tell, TypeInv, TypeOK
<1>6. ASSUME NEW l \in Loaders, Answer(l) PROVE DetachedNow
  BY <1>6 DEF DetachedNow, Answer, MainIdle, BetweenRequests, TypeInv, TypeOK
<1>7. ASSUME NEW l \in Loaders, AnswerFails(l) PROVE DetachedNow
  BY <1>7 DEF DetachedNow, AnswerFails, Tell, MainIdle, BetweenRequests,
    TypeInv, TypeOK
<1>8. ASSUME NEW l \in Loaders, Inform(l) PROVE DetachedNow
  BY <1>8 DEF DetachedNow, Inform, Tell, MainIdle, BetweenRequests, TypeInv, TypeOK
<1>9. ASSUME NEW l \in Loaders, End(l) PROVE DetachedNow
  BY <1>9 DEF DetachedNow, End, TypeInv, TypeOK
<1>10. ASSUME NEW l \in Loaders, Take(l) PROVE DetachedNow
  BY <1>10 DEF DetachedNow, Take, TypeInv, TypeOK
<1>11. ASSUME NEW l \in Loaders, Decrement(l) PROVE DetachedNow
  BY <1>11 DEF DetachedNow, Decrement, TypeInv, TypeOK
<1>12. ASSUME NEW l \in Loaders, Cancel(l) PROVE DetachedNow
  BY <1>12 DEF DetachedNow, Cancel, isUnsent, MainIdle, BetweenRequests,
    TypeInv, TypeOK
<1>13. ASSUME NEW l \in Loaders, TellSaveFailed(l) PROVE DetachedNow
  BY <1>13 DEF DetachedNow, TellSaveFailed, MainIdle, BetweenRequests, TypeInv,
    TypeOK
<1>14. ASSUME NEW l \in Loaders, Map(l) PROVE DetachedNow
  BY <1>14 DEF DetachedNow, Map, TypeInv, TypeOK
<1>15. ASSUME NEW l \in Loaders, MapUnsaved(l) PROVE DetachedNow
  BY <1>15 DEF DetachedNow, MapUnsaved, TypeInv, TypeOK
<1>16. ASSUME NEW l \in Loaders, MapFails(l) PROVE DetachedNow
  BY <1>16 DEF DetachedNow, MapFails, TypeInv, TypeOK
<1>17. ASSUME NEW l \in Loaders, Save(l) PROVE DetachedNow
  BY <1>17 DEF DetachedNow, Save, TypeInv, TypeOK
<1>18. ASSUME NEW l \in Loaders, SaveFails(l) PROVE DetachedNow
  BY <1>18 DEF DetachedNow, SaveFails, TypeInv, TypeOK
<1>19. ASSUME NEW l \in Loaders, TellFailed(l) PROVE DetachedNow
  BY <1>19 DEF DetachedNow, TellFailed, TypeInv, TypeOK
<1>20. ASSUME NEW l \in Loaders, Post(l) PROVE DetachedNow
  BY <1>20 DEF DetachedNow, Post, TypeInv, TypeOK
<1>21. ASSUME NEW l \in Loaders, LookUp(l) PROVE DetachedNow
  BY <1>21 DEF DetachedNow, LookUp, TypeInv, TypeOK
<1>22. ASSUME NEW l \in Loaders, Remove(l) PROVE DetachedNow
  BY <1>22 DEF DetachedNow, Remove, TypeInv, TypeOK
<1>23. ASSUME NEW l \in Loaders, Count(l) PROVE DetachedNow
  BY <1>23 DEF DetachedNow, Count, TypeInv, TypeOK
<1>24. ASSUME NEW l \in Loaders, DecrementOffMain(l) PROVE DetachedNow
  BY <1>24 DEF DetachedNow, DecrementOffMain, TypeInv, TypeOK
<1>25. CASE EndPass
  BY <1>25 DEF DetachedNow, EndPass, BetweenRequests, TypeInv, TypeOK
<1>26. CASE UNCHANGED vars
  BY <1>26 DEF DetachedNow, TypeInv, TypeOK, MainIdle, BetweenRequests
<1> QED
  BY <1>1, <1>2, <1>3, <1>4, <1>5, <1>6, <1>7, <1>8, <1>9, <1>10, <1>11, <1>12,
    <1>13, <1>14, <1>15, <1>16, <1>17, <1>18, <1>19, <1>20, <1>21, <1>22, <1>23,
    <1>24, <1>25, <1>26
  DEF Next, Foreground, Event, Background

-----------------------------------------------------------------------------
(* The theorems.                                                           *)

\* Types are kept, the counter stays within its width and the main thread is
\* never in the middle of two things.
THEOREM TypeCorrect == Spec => []TypeOK
<1>1. TypeInv => TypeOK
  BY DEF TypeInv
<1>2. TypeInv /\ [Next]_vars => TypeInv'
  BY TypeStep
<1> QED
  BY <1>1, <1>2, TypeInit, PTL DEF Spec

\* As long as every load ends on the main thread, the counter of
\* RKRequestQueue is exact whenever that thread is between two handlers.
THEOREM CountIsExact == Spec => []CountExact
<1>1. ExactInv => CountExact
  BY DEF ExactInv, CountFacts, StillCounted, CountExact, BetweenRequests, Occupied
<1> QED
  BY <1>1, ExactInit, ExactStep, PTL DEF Spec

\* A queued request that counts as loading always has a connection, a thread or
\* the main thread at work on it, or its save has failed.
THEOREM LoadingIsAlwaysWorkedOn == Spec => []LoadingIsWorkedOn
<1>1. WorkInv => LoadingIsWorkedOn
  BY DEF WorkInv
<1> QED
  BY <1>1, WorkInit, WorkStep, PTL DEF Spec

\* RKManagedObjectLoader tells its delegate of objects only after saving them,
\* unless the response was not a success.
THEOREM LoadedIsAlwaysCommitted == Spec => []LoadedIsCommitted
<1>1. CommitInv => LoadedIsCommitted
  BY DEF CommitInv
<1> QED
  BY <1>1, CommitInit, CommitStep, PTL DEF Spec

\* As long as every load ends on the main thread, its delegate is told one
\* outcome and the loader is not sent again.
THEOREM EndsAtMostOnce == Spec => EndsOnce
<1>1. EndInv /\ [Next]_vars => [EndsOnceNow]_vars
  BY EndsOnceStep
<1>2. [EndsOnceNow]_vars
        => [\A l \in Loaders : ~raced /\ told[l] # "nothing" =>
              told'[l] = told[l] /\ (l \in connected' => l \in connected)]_vars
  BY DEF EndsOnceNow
<1> QED
  BY <1>1, <1>2, EndInit, EndStep, PTL DEF Spec, EndsOnce

\* After cancelRequest: a delegate hears only of a failure that a background
\* thread had begun to report.
THEOREM DetachedHearOnlyFailure == Spec => DetachedHearsOnlyFailure
<1>1. TypeInv /\ [Next]_vars => TypeInv'
  BY TypeStep
<1>2. TypeInv /\ [Next]_vars
        => [\A l \in detached : told'[l] # told[l] =>
              bg[l] \in {"telling", "saveFailed"}]_vars
  BY DetachedStep DEF DetachedNow
<1> QED
  BY <1>1, <1>2, TypeInit, PTL DEF Spec, DetachedHearsOnlyFailure

-----------------------------------------------------------------------------
(* When the counter can go below zero.                                     *)

\* RKRequestQueue.m:350 can fail only after a load has ended on a background
\* thread: on the main thread alone every place is given back once.
THEOREM BelowZeroTakesARace == Spec => [](~raced => NotBelowZero)
<1>1. ExactInv => (~raced => NotBelowZero)
  <2> SUFFICES ASSUME ExactInv, ~raced, NEW l \in Loaders
               PROVE  /\ fg[l] = "decrementing" => fgCount > 0
                      /\ bg[l] = "decrementing" => bgCount[l] > 0
    BY DEF NotBelowZero
  <2>1. bg[l] # "decrementing"
    BY DEF ExactInv, WorkIsLoading
  <2>2. ASSUME fg[l] = "decrementing" PROVE fgCount > 0
    <3>1. fgCount = Cardinality(Occupied) + 1
      BY <2>2 DEF ExactInv, ForegroundFacts, CountFacts, StillCounted
    <3> QED BY <3>1, OccupiedFinite DEF ExactInv
  <2> QED BY <2>1, <2>2
<1> QED
  BY <1>1, ExactInit, ExactStep, PTL DEF Spec

\* l has a place of the limit: it counts as loading, or the main thread or the
\* background thread of its load has still to count down for it.
HoldsPlace(l) ==
    \/ l \in Occupied
    \/ StillCounted(l)
    \/ bg[l] \in {"ending", "removing", "counting", "decrementing"}

\* One place, one holder, and the counter says so.
OneHolder ==
    /\ \A k, l \in Loaders : HoldsPlace(k) /\ HoldsPlace(l) => k = l
    /\ \A l \in Loaders : HoldsPlace(l) => loadingCount = 1
    /\ (\A l \in Loaders : ~HoldsPlace(l)) => loadingCount = 0

\* A background thread at work finds its request where the queue dispatched it,
\* until the thread itself takes it out.
OneWork ==
    /\ connected \subseteq Occupied
    /\ \A l \in connected : bg[l] = "none"
    /\ \A l \in Loaders :
          /\ bg[l] \notin {"none", "counting", "decrementing"} => l \in queued
          /\ bg[l] \notin {"none", "ending", "removing", "counting", "decrementing"}
                => l \in isLoading
          /\ bg[l] \in {"ending", "removing"} => l \notin isLoading
          /\ bg[l] \in {"counting", "decrementing"} => l \notin queued
          /\ bg[l] = "decrementing" => bgCount[l] = 1

\* The main thread dispatches only while the place is free, and has nothing to do
\* with a request that a background thread has not returned from.
OneHandler ==
    \A l \in Loaders :
        /\ fg[l] # "idle" => bg[l] = "none"
        /\ fg[l] \in {"dispatching", "ending", "removing"} => l \notin isLoading
        /\ fg[l] = "dispatching" =>
              l \in queued /\ fgCount = 0 /\ \A k \in Loaders : ~HoldsPlace(k)
        /\ fg[l] = "decrementing" => l \notin queued /\ fgCount = 1

OneFacts == OneHolder /\ OneWork /\ OneHandler

LEMMA OneStep ==
    ASSUME Limit = 1, TypeInv, OneFacts, [Next]_vars, detached' = {}
    PROVE  OneFacts'
<1>0. Incremented(0) = 1 /\ Decremented(1) = 0
  BY LoaderAssumption DEF Incremented, Decremented
<1> USE <1>0 DEF vars, queueVars, requestVars, fgVars, bgVars, delegateVars,
  storeVars, OneFacts, OneHolder, OneWork, OneHandler, HoldsPlace, StillCounted,
  Occupied, TypeInv, TypeOK, FgPhases, BgPhases
<1>1. ASSUME NEW l \in Loaders, Send(l) PROVE OneFacts'
  BY <1>1 DEF Send, MainIdle, BetweenRequests, UnsentIsFresh
<1>2. ASSUME NEW l \in Loaders, BeginDispatch(l) PROVE OneFacts'
  BY <1>2 DEF BeginDispatch, isUnsent, MainIdle, BetweenRequests
<1>3. ASSUME NEW l \in Loaders, Connect(l) PROVE OneFacts'
  BY <1>3 DEF Connect
<1>4. ASSUME NEW l \in Loaders, LoadFromCache(l) PROVE OneFacts'
  BY <1>4 DEF LoadFromCache
<1>5. ASSUME NEW l \in Loaders, Refuse(l) PROVE OneFacts'
  BY <1>5 DEF Refuse, Tell
<1>6. ASSUME NEW l \in Loaders, Answer(l) PROVE OneFacts'
  BY <1>6 DEF Answer, MainIdle, BetweenRequests
<1>7. ASSUME NEW l \in Loaders, AnswerFails(l) PROVE OneFacts'
  BY <1>7 DEF AnswerFails, MainIdle, BetweenRequests, Tell
<1>8. ASSUME NEW l \in Loaders, Inform(l) PROVE OneFacts'
  BY <1>8 DEF Inform, MainIdle, BetweenRequests, Tell
<1>9. ASSUME NEW l \in Loaders, End(l) PROVE OneFacts'
  BY <1>9 DEF End
<1>10. ASSUME NEW l \in Loaders, Take(l) PROVE OneFacts'
  BY <1>10 DEF Take
<1>11. ASSUME NEW l \in Loaders, Decrement(l) PROVE OneFacts'
  BY <1>11 DEF Decrement
<1>12. ASSUME NEW l \in Loaders, Cancel(l) PROVE OneFacts'
  BY <1>12 DEF Cancel, isUnsent, MainIdle, BetweenRequests
<1>13. ASSUME NEW l \in Loaders, TellSaveFailed(l) PROVE OneFacts'
  BY <1>13 DEF TellSaveFailed, MainIdle, BetweenRequests
<1>14. ASSUME NEW l \in Loaders, Map(l) PROVE OneFacts'
  BY <1>14 DEF Map
<1>15. ASSUME NEW l \in Loaders, MapUnsaved(l) PROVE OneFacts'
  BY <1>15 DEF MapUnsaved
<1>16. ASSUME NEW l \in Loaders, MapFails(l) PROVE OneFacts'
  BY <1>16 DEF MapFails
<1>17. ASSUME NEW l \in Loaders, Save(l) PROVE OneFacts'
  BY <1>17 DEF Save
<1>18. ASSUME NEW l \in Loaders, SaveFails(l) PROVE OneFacts'
  BY <1>18 DEF SaveFails
<1>19. ASSUME NEW l \in Loaders, TellFailed(l) PROVE OneFacts'
  BY <1>19 DEF TellFailed
<1>20. ASSUME NEW l \in Loaders, Post(l) PROVE OneFacts'
  BY <1>20 DEF Post
<1>21. ASSUME NEW l \in Loaders, LookUp(l) PROVE OneFacts'
  BY <1>21 DEF LookUp
<1>22. ASSUME NEW l \in Loaders, Remove(l) PROVE OneFacts'
  BY <1>22 DEF Remove
<1>23. ASSUME NEW l \in Loaders, Count(l) PROVE OneFacts'
  BY <1>23 DEF Count
<1>24. ASSUME NEW l \in Loaders, DecrementOffMain(l) PROVE OneFacts'
  BY <1>24 DEF DecrementOffMain
<1>25. CASE EndPass
  BY <1>25 DEF EndPass, BetweenRequests
<1>26. CASE UNCHANGED vars
  BY <1>26
<1> QED
  BY <1>1, <1>2, <1>3, <1>4, <1>5, <1>6, <1>7, <1>8, <1>9, <1>10, <1>11, <1>12,
    <1>13, <1>14, <1>15, <1>16, <1>17, <1>18, <1>19, <1>20, <1>21, <1>22, <1>23,
    <1>24, <1>25, <1>26
  DEF Next, Foreground, Event, Background

\* Who is detached stays detached.
LEMMA DetachedGrows == ASSUME [Next]_vars PROVE detached \subseteq detached'
BY DEF Next, Foreground, Event, Background, vars, delegateVars, Send,
       BeginDispatch, Connect, LoadFromCache, Refuse, Answer, AnswerFails, Inform,
       End, Take, Decrement, Cancel, TellSaveFailed, Map, MapUnsaved, MapFails,
       Save, SaveFails, TellFailed, Post, LookUp, Remove, Count, DecrementOffMain,
       EndPass

\* With a limit of one, RKRequestQueue.m:350 can fail only after a request has
\* been cancelled, however many loads end on background threads: until then the
\* thread that counts down is the only one that has read the counter, and the only
\* one to have looked its request up.  A cancellation breaks it, because the main
\* thread and the background thread can both find a request that is mapped.
THEOREM OnePlaceTakesACancel ==
    ASSUME Limit = 1 PROVE Spec => [](detached = {} => NotBelowZero)
<1>1. Init => TypeInv /\ (detached = {} => OneFacts)
  BY TypeInit DEF Init, OneFacts, OneHolder, OneWork, OneHandler, HoldsPlace,
     StillCounted, Occupied
<1>2. TypeInv /\ (detached = {} => OneFacts) /\ [Next]_vars
        => (TypeInv /\ (detached = {} => OneFacts))'
  BY TypeStep, OneStep, DetachedGrows
<1>3. TypeInv /\ (detached = {} => OneFacts) => (detached = {} => NotBelowZero)
  BY DEF OneFacts, OneWork, OneHandler, NotBelowZero
<1> QED
  BY <1>1, <1>2, <1>3, PTL DEF Spec

-----------------------------------------------------------------------------
(* Object loaders implement LoadService.                                   *)

\* A cancelled request has left the array, or is about to, and none comes back.
DetachedHasLeft ==
    /\ detached \subseteq submitted
    /\ \A l \in detached \cap queued : fg[l] \in {"ending", "removing"}

\* A load the main thread is ending, or that has left the array, has been heard
\* of or was cancelled.
NoneSilent ==
    \A l \in Loaders :
        fg[l] \in {"ending", "removing"} \/ l \in submitted \ queued
            => l \in detached \/ told[l] # "nothing"

SilenceFacts == DetachedHasLeft /\ (~raced => NoneSilent)

LEMMA SilenceStep ==
    ASSUME EndInv, SilenceFacts, [Next]_vars
    PROVE  SilenceFacts'
<1> USE DEF vars, queueVars, requestVars, fgVars, bgVars, delegateVars,
  storeVars, SilenceFacts, DetachedHasLeft, NoneSilent, EndInv, ExactInv,
  WorkIsLoading, ForegroundFacts, TypeInv, TypeOK, UnsentIsFresh
<1>1. ASSUME NEW l \in Loaders, Send(l) PROVE SilenceFacts'
  BY <1>1 DEF Send, MainIdle, BetweenRequests
<1>2. ASSUME NEW l \in Loaders, BeginDispatch(l) PROVE SilenceFacts'
  BY <1>2 DEF BeginDispatch, isUnsent, MainIdle, BetweenRequests
<1>3. ASSUME NEW l \in Loaders, Connect(l) PROVE SilenceFacts'
  BY <1>3 DEF Connect
<1>4. ASSUME NEW l \in Loaders, LoadFromCache(l) PROVE SilenceFacts'
  BY <1>4 DEF LoadFromCache
<1>5. ASSUME NEW l \in Loaders, Refuse(l) PROVE SilenceFacts'
  BY <1>5 DEF Refuse, Tell
<1>6. ASSUME NEW l \in Loaders, Answer(l) PROVE SilenceFacts'
  BY <1>6 DEF Answer, MainIdle, BetweenRequests
<1>7. ASSUME NEW l \in Loaders, AnswerFails(l) PROVE SilenceFacts'
  BY <1>7 DEF AnswerFails, MainIdle, BetweenRequests, Tell
<1>8. ASSUME NEW l \in Loaders, Inform(l) PROVE SilenceFacts'
  BY <1>8 DEF Inform, MainIdle, BetweenRequests, Tell
<1>9. ASSUME NEW l \in Loaders, End(l) PROVE SilenceFacts'
  BY <1>9 DEF End
<1>10. ASSUME NEW l \in Loaders, Take(l) PROVE SilenceFacts'
  BY <1>10 DEF Take
<1>11. ASSUME NEW l \in Loaders, Decrement(l) PROVE SilenceFacts'
  BY <1>11 DEF Decrement
<1>12. ASSUME NEW l \in Loaders, Cancel(l) PROVE SilenceFacts'
  BY <1>12 DEF Cancel, isUnsent, MainIdle, BetweenRequests
<1>13. ASSUME NEW l \in Loaders, TellSaveFailed(l) PROVE SilenceFacts'
  BY <1>13 DEF TellSaveFailed, MainIdle, BetweenRequests
<1>14. ASSUME NEW l \in Loaders, Map(l) PROVE SilenceFacts'
  BY <1>14 DEF Map
<1>15. ASSUME NEW l \in Loaders, MapUnsaved(l) PROVE SilenceFacts'
  BY <1>15 DEF MapUnsaved
<1>16. ASSUME NEW l \in Loaders, MapFails(l) PROVE SilenceFacts'
  BY <1>16 DEF MapFails
<1>17. ASSUME NEW l \in Loaders, Save(l) PROVE SilenceFacts'
  BY <1>17 DEF Save
<1>18. ASSUME NEW l \in Loaders, SaveFails(l) PROVE SilenceFacts'
  BY <1>18 DEF SaveFails
<1>19. ASSUME NEW l \in Loaders, TellFailed(l) PROVE SilenceFacts'
  BY <1>19 DEF TellFailed
<1>20. ASSUME NEW l \in Loaders, Post(l) PROVE SilenceFacts'
  BY <1>20 DEF Post
<1>21. ASSUME NEW l \in Loaders, LookUp(l) PROVE SilenceFacts'
  BY <1>21 DEF LookUp
<1>22. ASSUME NEW l \in Loaders, Remove(l) PROVE SilenceFacts'
  BY <1>22 DEF Remove
<1>23. ASSUME NEW l \in Loaders, Count(l) PROVE SilenceFacts'
  BY <1>23 DEF Count
<1>24. ASSUME NEW l \in Loaders, DecrementOffMain(l) PROVE SilenceFacts'
  BY <1>24 DEF DecrementOffMain
<1>25. CASE EndPass
  BY <1>25 DEF EndPass, BetweenRequests
<1>26. CASE UNCHANGED vars
  BY <1>26
<1> QED
  BY <1>1, <1>2, <1>3, <1>4, <1>5, <1>6, <1>7, <1>8, <1>9, <1>10, <1>11, <1>12,
    <1>13, <1>14, <1>15, <1>16, <1>17, <1>18, <1>19, <1>20, <1>21, <1>22, <1>23,
    <1>24, <1>25, <1>26
  DEF Next, Foreground, Event, Background

\* What is over stays over, also after a race.
LEMMA OverStays ==
    ASSUME TypeInv, [Next]_vars
    PROVE  submitted \ (queued \cup Active)
              \subseteq submitted' \ (queued' \cup Active')
<1> DEFINE Stays == submitted \ (queued \cup Active)
                       \subseteq submitted' \ (queued' \cup Active')
<1> USE DEF vars, queueVars, requestVars, fgVars, bgVars, delegateVars,
  storeVars, Active, Occupied, StillCounted, TypeInv, TypeOK
<1>1. ASSUME NEW l \in Loaders, Send(l) PROVE Stays
  BY <1>1 DEF Send, MainIdle, BetweenRequests
<1>2. ASSUME NEW l \in Loaders, BeginDispatch(l) PROVE Stays
  BY <1>2 DEF BeginDispatch, isUnsent, MainIdle, BetweenRequests
<1>3. ASSUME NEW l \in Loaders, Connect(l) PROVE Stays
  BY <1>3 DEF Connect
<1>4. ASSUME NEW l \in Loaders, LoadFromCache(l) PROVE Stays
  BY <1>4 DEF LoadFromCache
<1>5. ASSUME NEW l \in Loaders, Refuse(l) PROVE Stays
  BY <1>5 DEF Refuse, Tell
<1>6. ASSUME NEW l \in Loaders, Answer(l) PROVE Stays
  BY <1>6 DEF Answer, MainIdle, BetweenRequests
<1>7. ASSUME NEW l \in Loaders, AnswerFails(l) PROVE Stays
  BY <1>7 DEF AnswerFails, MainIdle, BetweenRequests, Tell
<1>8. ASSUME NEW l \in Loaders, Inform(l) PROVE Stays
  BY <1>8 DEF Inform, MainIdle, BetweenRequests, Tell
<1>9. ASSUME NEW l \in Loaders, End(l) PROVE Stays
  BY <1>9 DEF End
<1>10. ASSUME NEW l \in Loaders, Take(l) PROVE Stays
  BY <1>10 DEF Take
<1>11. ASSUME NEW l \in Loaders, Decrement(l) PROVE Stays
  BY <1>11 DEF Decrement
<1>12. ASSUME NEW l \in Loaders, Cancel(l) PROVE Stays
  BY <1>12 DEF Cancel, isUnsent, MainIdle, BetweenRequests
<1>13. ASSUME NEW l \in Loaders, TellSaveFailed(l) PROVE Stays
  BY <1>13 DEF TellSaveFailed, MainIdle, BetweenRequests
<1>14. ASSUME NEW l \in Loaders, Map(l) PROVE Stays
  BY <1>14 DEF Map
<1>15. ASSUME NEW l \in Loaders, MapUnsaved(l) PROVE Stays
  BY <1>15 DEF MapUnsaved
<1>16. ASSUME NEW l \in Loaders, MapFails(l) PROVE Stays
  BY <1>16 DEF MapFails
<1>17. ASSUME NEW l \in Loaders, Save(l) PROVE Stays
  BY <1>17 DEF Save
<1>18. ASSUME NEW l \in Loaders, SaveFails(l) PROVE Stays
  BY <1>18 DEF SaveFails
<1>19. ASSUME NEW l \in Loaders, TellFailed(l) PROVE Stays
  BY <1>19 DEF TellFailed
<1>20. ASSUME NEW l \in Loaders, Post(l) PROVE Stays
  BY <1>20 DEF Post
<1>21. ASSUME NEW l \in Loaders, LookUp(l) PROVE Stays
  BY <1>21 DEF LookUp
<1>22. ASSUME NEW l \in Loaders, Remove(l) PROVE Stays
  BY <1>22 DEF Remove
<1>23. ASSUME NEW l \in Loaders, Count(l) PROVE Stays
  BY <1>23 DEF Count
<1>24. ASSUME NEW l \in Loaders, DecrementOffMain(l) PROVE Stays
  BY <1>24 DEF DecrementOffMain
<1>25. CASE EndPass
  BY <1>25 DEF EndPass, BetweenRequests
<1>26. CASE UNCHANGED vars
  BY <1>26
<1> QED
  BY <1>1, <1>2, <1>3, <1>4, <1>5, <1>6, <1>7, <1>8, <1>9, <1>10, <1>11, <1>12,
    <1>13, <1>14, <1>15, <1>16, <1>17, <1>18, <1>19, <1>20, <1>21, <1>22, <1>23,
    <1>24, <1>25, <1>26
  DEF Next, Foreground, Event, Background

ServiceInv == EndInv /\ CommitInv /\ SilenceFacts

\* A load that is not waiting is under way or over.
LEMMA WorkedOnIsNotWaiting ==
    ASSUME ServiceInv, ~raced, NEW l \in Loaders, bg[l] # "none"
    PROVE  l \in Active \cup (submitted \ (queued \cup Active))
<1>1. l \in submitted
  BY DEF ServiceInv, CommitInv, TypeInv, UnsentIsFresh
<1>2. l \in queued => l \in Active
  BY DEF ServiceInv, EndInv, ExactInv, WorkIsLoading, Active, Occupied, StillCounted
<1> QED BY <1>1, <1>2

\* After a race, and with the step that is one, little is promised, and kept.
LEMMA UnreliableStep ==
    ASSUME ServiceInv, [Next]_vars, TypeInv', raced'
    PROVE  Service!Unreliable
<1> USE DEF vars, queueVars, requestVars, fgVars, bgVars, delegateVars, storeVars
<1>1. submitted \ (queued \cup Active) \subseteq submitted' \ (queued' \cup Active')
  BY OverStays DEF ServiceInv, CommitInv
<1>2. detached \subseteq detached' /\ committed \cup notSuccess \subseteq committed' \cup notSuccess'
  BY DEF Next, Foreground, Event, Background, Send, BeginDispatch, Connect,
     LoadFromCache, Refuse, Answer, AnswerFails, Inform, End, Take, Decrement,
     Cancel, TellSaveFailed, Map, MapUnsaved, MapFails, Save, SaveFails, TellFailed,
     Post, LookUp, Remove, Count, DecrementOffMain, EndPass
<1>3. told' \in [Loaders -> Service!Outcomes]
  BY DEF TypeInv, TypeOK, Outcomes, Service!Outcomes
<1>4. ASSUME NEW k \in Managed, told'[k] = "loaded"
      PROVE  told[k] = "loaded" \/ k \in committed \cup notSuccess
  <2>1. CASE \E l \in Loaders : Inform(l)
    BY <1>4, <2>1, LoaderAssumption
       DEF Inform, Tell, ServiceInv, CommitInv, InformsOfCommitted, TypeInv, TypeOK
  <2>2. ASSUME NEW l \in Loaders,
               \/ UNCHANGED told
               \/ Tell(l, "failed")
               \/ told' = [told EXCEPT ![l] = "failed"]
        PROVE  told[k] = "loaded"
    BY <1>4, <2>2, LoaderAssumption DEF Tell, ServiceInv, CommitInv, TypeInv, TypeOK
  <2>3. ASSUME NEW l \in Loaders, Send(l) \/ Cancel(l) \/ Foreground(l)
        PROVE  told[k] = "loaded"
    BY <2>2, <2>3 DEF Send, Cancel, Foreground, Connect, LoadFromCache, Refuse, End,
       Take, Decrement
  <2>4. ASSUME NEW l \in Loaders, Event(l), ~Inform(l)
        PROVE  told[k] = "loaded"
    BY <2>2, <2>4 DEF Event, BeginDispatch, Answer, AnswerFails, TellSaveFailed
  <2>5. ASSUME NEW l \in Loaders, Background(l)
        PROVE  told[k] = "loaded"
    BY <2>2, <2>5 DEF Background, Map, MapUnsaved, MapFails, Save, SaveFails,
      TellFailed, Post, LookUp, Remove, Count, DecrementOffMain
  <2>6. CASE EndPass \/ UNCHANGED vars
    BY <1>4, <2>6 DEF EndPass, vars
  <2> QED BY <2>1, <2>3, <2>4, <2>5, <2>6 DEF Next
<1>5. raced' = TRUE
  BY DEF TypeInv, TypeOK
<1> QED BY <1>1, <1>2, <1>3, <1>4, <1>5 DEF Service!Unreliable

\* Who takes a place finds one free.
LEMMA DispatchFindsPlace ==
    ASSUME ServiceInv, ~raced, NEW l \in Loaders, fg[l] = "dispatching"
    PROVE  /\ l \in (queued \ Active) \ detached
           /\ told[l] = "nothing"
           /\ \A k \in Loaders : ~StillCounted(k)
           /\ Service!Cardinality(Active) < Limit
<1>1. l \in queued /\ l \notin isLoading /\ loadingCount < Limit
  BY DEF ServiceInv, EndInv, ExactInv, ForegroundFacts
<1>2. \A k \in Loaders : ~StillCounted(k)
  BY DEF ServiceInv, CommitInv, TypeInv, TypeOK, StillCounted
<1>3. Active = Occupied
  BY <1>2 DEF Active
<1>4. loadingCount = Cardinality(Occupied)
  BY <1>2 DEF ServiceInv, EndInv, ExactInv, CountFacts
<1>5. told[l] = "nothing"
  BY DEF ServiceInv, EndInv, ToldIsOver
<1>6. Service!Cardinality(Active) = Cardinality(Active)
  BY DEF Service!Cardinality, Cardinality
<1> QED BY <1>1, <1>2, <1>3, <1>4, <1>5, <1>6
        DEF ServiceInv, SilenceFacts, DetachedHasLeft, Occupied

\* The steps of a loader, while every load ends on the main thread.
LEMMA ReliableStep ==
    ASSUME ServiceInv, [Next]_vars, ~raced, ~raced'
    PROVE  Service!Reliable \/ UNCHANGED Service!vars
<1> USE DEF queueVars, requestVars, fgVars, bgVars, delegateVars, storeVars
<1>0. /\ raced = FALSE /\ raced' = raced
      /\ told \in [Loaders -> Outcomes]
      /\ queued \subseteq submitted /\ submitted \subseteq Loaders
  BY TypeStep DEF ServiceInv, CommitInv, TypeInv, TypeOK
<1> DEFINE Same == UNCHANGED <<queued, submitted, Active, detached, committed, notSuccess>>
<1>a. ASSUME Same, told' = told PROVE UNCHANGED Service!vars
  BY <1>0, <1>a DEF Service!vars
<1>b. ASSUME NEW l \in Loaders,
             \/ Service!Send(l) \/ Service!Begin(l) \/ Service!Settle(l)
             \/ Service!ReportObjects(l) \/ Service!ReportFailure(l)
             \/ Service!Leave(l) \/ Service!Withdraw(l)
      PROVE  Service!Reliable
  BY <1>0, <1>b DEF Service!Reliable
<1>c. ASSUME NEW l \in Loaders, Same, told[l] = "nothing",
             l \in Active \cup (submitted \ (queued \cup Active)),
             told' = [told EXCEPT ![l] = "failed"]
      PROVE  Service!Reliable
  BY <1>b, <1>c DEF Service!ReportFailure
<1>d. ASSUME NEW l \in Loaders, bg[l] \in {"telling", "saveFailed"}
      PROVE  /\ told[l] = "nothing"
             /\ l \in Active \cup (submitted \ (queued \cup Active))
  BY <1>d, WorkedOnIsNotWaiting DEF ServiceInv, EndInv, ToldIsOver
<1>e. ASSUME UNCHANGED <<queued, isLoading, fg>> PROVE Active' = Active
  BY <1>e DEF Active, Occupied, StillCounted
<1> HIDE DEF Same
<1>1. ASSUME NEW l \in Loaders, Send(l) PROVE Service!Reliable
  <2>1. l \notin Active /\ l \notin queued
    BY <1>0, <1>1 DEF Send, MainIdle, BetweenRequests, Active, Occupied,
      StillCounted
  <2>2. Active' = Active
    BY <1>1, <2>1 DEF Send, MainIdle, BetweenRequests, Active, Occupied,
      StillCounted, ServiceInv, CommitInv, TypeInv, UnsentIsFresh
  <2>3. Service!Send(l)
    BY <1>0, <1>1, <2>1, <2>2 DEF Send, Service!Send
  <2> QED BY <1>b, <2>3
<1>2. ASSUME NEW l \in Loaders, BeginDispatch(l) PROVE UNCHANGED Service!vars
  <2>1. Active' = Active
    BY <1>2 DEF BeginDispatch, MainIdle, BetweenRequests, Active, Occupied,
      StillCounted, ServiceInv, CommitInv, TypeInv, TypeOK
  <2> QED BY <1>2, <1>a, <2>1 DEF BeginDispatch, Same
<1>3. ASSUME NEW l \in Loaders, Connect(l) \/ LoadFromCache(l) PROVE Service!Reliable
  <2>0. l \in queued /\ \A k \in Loaders : ~StillCounted(k)
    BY <1>3, DispatchFindsPlace DEF Connect, LoadFromCache
  <2>1. Active' = Active \cup {l}
    BY <1>3, <2>0 DEF Connect, LoadFromCache, Active, Occupied, StillCounted,
      ServiceInv, CommitInv, TypeInv, TypeOK
  <2>2. told' = [told EXCEPT ![l] = "nothing"]
    BY <1>0, <1>3, DispatchFindsPlace DEF Connect, LoadFromCache
  <2>3. Service!Begin(l)
    BY <1>0, <1>3, <2>1, <2>2, DispatchFindsPlace DEF Connect, LoadFromCache,
      Service!Begin
  <2> QED BY <1>b, <2>3
<1>4. ASSUME NEW l \in Loaders, Refuse(l) PROVE Service!Reliable
  <2>1. Active' = Active \cup {l}
    BY <1>4, DispatchFindsPlace DEF Refuse, Active, Occupied,
       StillCounted, ServiceInv, CommitInv, TypeInv, TypeOK
  <2>2. told' = [told EXCEPT ![l] = "failed"]
    BY <1>4, DispatchFindsPlace DEF Refuse, Tell
  <2>3. Service!Begin(l)
    BY <1>0, <1>4, <2>1, <2>2, DispatchFindsPlace DEF Refuse, Service!Begin
  <2> QED BY <1>b, <2>3
<1>5. ASSUME NEW l \in Loaders, Answer(l) PROVE UNCHANGED Service!vars
  BY <1>5, <1>a, <1>e DEF Answer, Same
<1>6. ASSUME NEW l \in Loaders, AnswerFails(l) PROVE Service!Reliable
  <2>1. /\ l \in queued /\ l \in isLoading /\ l \notin detached
        /\ told[l] = "nothing" /\ l \in Active
    BY <1>6 DEF AnswerFails, MainIdle, BetweenRequests, ServiceInv, EndInv, ExactInv,
      WorkIsLoading, ToldIsOver, SilenceFacts, DetachedHasLeft, Active, Occupied
  <2>2. Active' = Active
    BY <1>6, <2>1 DEF AnswerFails, MainIdle, BetweenRequests, Active, Occupied,
      StillCounted, ServiceInv, CommitInv, TypeInv, TypeOK
  <2> QED BY <1>6, <1>c, <2>1, <2>2 DEF AnswerFails, Tell, Same
<1>7. ASSUME NEW l \in Loaders, Inform(l)
      PROVE  Service!Reliable \/ UNCHANGED Service!vars
  <2>1. told[l] = "nothing" /\ (l \in Managed => l \in committed \cup notSuccess)
    BY <1>7 DEF Inform, ServiceInv, EndInv, ToldIsOver, CommitInv,
      InformsOfCommitted
  <2>2. Active' = Active
    BY <1>7 DEF Inform, MainIdle, BetweenRequests, Active, Occupied,
      StillCounted, ServiceInv, EndInv, ExactInv, WorkIsLoading, TypeInv, TypeOK
  <2>3. CASE l \in queued
    <3>1. l \in Active /\ l \notin detached
      BY <1>7, <2>3 DEF Inform, MainIdle, BetweenRequests, ServiceInv, EndInv, ExactInv,
         WorkIsLoading, Active, Occupied, SilenceFacts, DetachedHasLeft
    <3>2. Service!ReportObjects(l)
      BY <1>7, <2>1, <2>2, <3>1 DEF Inform, Tell, Service!ReportObjects
    <3> QED BY <1>b, <3>2
  <2>4. CASE l \notin queued
    <3>1. l \in submitted
      BY <1>7 DEF Inform, ServiceInv, CommitInv, TypeInv, UnsentIsFresh
    <3>2. l \in detached
      BY <2>1, <2>4, <3>1 DEF ServiceInv, SilenceFacts, NoneSilent
    <3>3. told' = told
      BY <1>0, <1>7, <3>2 DEF Inform, Tell
    <3> QED BY <1>7, <1>a, <2>2, <3>3 DEF Inform, Same
  <2> QED BY <2>3, <2>4
<1>8. ASSUME NEW l \in Loaders, End(l) \/ Take(l) PROVE UNCHANGED Service!vars
  <2>1. l \notin isLoading
    BY <1>8 DEF End, Take, ServiceInv, EndInv, ExactInv, ForegroundFacts
  <2>2. Active' = Active /\ (Take(l) => l \in Active)
    BY <1>8, <2>1 DEF End, Take, Active, Occupied, StillCounted, ServiceInv,
      CommitInv, TypeInv, TypeOK
  <2> QED BY <1>0, <1>8, <2>2 DEF End, Take, Service!vars
<1>9. ASSUME NEW l \in Loaders, Decrement(l) PROVE Service!Reliable
  <2>1. l \notin queued /\ l \in submitted
    BY <1>9 DEF Decrement, ServiceInv, EndInv, ExactInv, ForegroundFacts, TypeInv,
       UnsentIsFresh
  <2>2. l \in Active /\ Active' = Active \ {l}
    BY <1>9, <2>1 DEF Decrement, Active, Occupied, StillCounted, ServiceInv,
      CommitInv, TypeInv, TypeOK
  <2>3. told[l] # "nothing" \/ l \in detached
    BY <2>1 DEF ServiceInv, SilenceFacts, NoneSilent
  <2>4. Service!Leave(l)
    BY <1>9, <2>1, <2>2, <2>3 DEF Decrement, Service!Leave
  <2> QED BY <1>b, <2>4
<1>10. ASSUME NEW l \in Loaders, Cancel(l) PROVE Service!Reliable
  <2>1. l \in queued
    BY <1>10 DEF Cancel
  <2>2. CASE isUnsent(l) /\ queued' = queued \ {l} /\ UNCHANGED <<isLoading, fg>>
    <3>1. l \notin Active /\ Active' = Active
      BY <1>10, <2>2 DEF Cancel, MainIdle, BetweenRequests, isUnsent, Active,
        Occupied, StillCounted
    <3>2. Service!Withdraw(l)
      BY <1>0, <1>10, <2>1, <2>2, <3>1 DEF Cancel, Service!Withdraw
    <3> QED BY <1>b, <3>2
  <2>3. CASE l \in isLoading /\ isLoading' = isLoading \ {l} /\ queued' = queued
             /\ fg' = [fg EXCEPT ![l] = "ending"]
    <3>1. l \in Active /\ Active' = Active
      BY <1>10, <2>1, <2>3 DEF Cancel, MainIdle, BetweenRequests, Active,
        Occupied, StillCounted, ServiceInv, CommitInv, TypeInv, TypeOK
    <3>2. Service!Withdraw(l)
      BY <1>0, <1>10, <2>1, <2>3, <3>1 DEF Cancel, Service!Withdraw
    <3> QED BY <1>b, <3>2
  <2> QED BY <1>10, <2>2, <2>3 DEF Cancel
<1>11. ASSUME NEW l \in Loaders, TellSaveFailed(l) \/ TellFailed(l) PROVE Service!Reliable
  BY <1>11, <1>c, <1>d, <1>e DEF TellSaveFailed, TellFailed, Same
<1>12. ASSUME NEW l \in Loaders, Map(l) \/ MapFails(l) \/ SaveFails(l)
       PROVE  UNCHANGED Service!vars
  BY <1>12, <1>a, <1>e DEF Map, MapFails, SaveFails, Same
<1>13. ASSUME NEW l \in Loaders, MapUnsaved(l) \/ Save(l) PROVE Service!Reliable
  <2>1. l \in Managed /\ l \in Active \cup (submitted \ (queued \cup Active))
    BY <1>13, WorkedOnIsNotWaiting DEF MapUnsaved, Save, ServiceInv, CommitInv,
      TypeInv, ManagedSaves
  <2>2. Active' = Active
    BY <1>13, <1>e DEF MapUnsaved, Save
  <2>3. (committed \cup notSuccess)' = (committed \cup notSuccess) \cup {l}
    BY <1>13 DEF MapUnsaved, Save
  <2>4. Service!Settle(l)
    BY <1>13, <2>1, <2>2, <2>3 DEF MapUnsaved, Save, Service!Settle
  <2> QED BY <1>b, <2>4
<1>14. ASSUME NEW l \in Loaders,
              Post(l) \/ LookUp(l) \/ Remove(l) \/ Count(l) \/ DecrementOffMain(l)
       PROVE  FALSE
  BY <1>0, <1>14 DEF Post, LookUp, Remove, Count, DecrementOffMain, ServiceInv,
    EndInv, ExactInv, WorkIsLoading
<1>15. CASE EndPass \/ UNCHANGED vars
  BY <1>15, <1>a, <1>e DEF EndPass, vars, Same
<1> QED
  BY <1>1, <1>2, <1>3, <1>4, <1>5, <1>6, <1>7, <1>8, <1>9, <1>10, <1>11, <1>12,
     <1>13, <1>14, <1>15 DEF Next, Foreground, Event, Background

LEMMA ServiceInvInit == Init => ServiceInv
BY EndInit, CommitInit
   DEF Init, ServiceInv, SilenceFacts, DetachedHasLeft, NoneSilent

LEMMA ServiceInvStep == ServiceInv /\ [Next]_vars => ServiceInv'
BY EndStep, CommitStep, SilenceStep DEF ServiceInv

\* What the loaders of one queue do is what LoadService says, whatever the two
\* threads do in between: up to the first load that fails while it is mapped the
\* limit, the single report, the store before the report and the word before the
\* end; after it the little that Unreliable keeps.
THEOREM LoaderRefinesService == Spec => RefinesLoadService
<1>1. Init => Service!Init
  BY DEF Init, Service!Init, Active, Occupied, StillCounted
<1>2. ServiceInv /\ ServiceInv' /\ [Next]_vars => [Service!Next]_(Service!vars)
  <2> SUFFICES ASSUME ServiceInv, ServiceInv', [Next]_vars
               PROVE  Service!Next \/ UNCHANGED Service!vars
    OBVIOUS
  <2>1. TypeInv'
    BY DEF ServiceInv, CommitInv
  <2>2. CASE raced'
    BY <2>1, <2>2, UnreliableStep DEF Service!Next
  <2>3. CASE ~raced'
    BY <2>3, RacedStays, ReliableStep DEF Service!Next, ServiceInv, CommitInv
  <2> QED BY <2>2, <2>3
<1> QED
  BY <1>1, <1>2, ServiceInvInit, ServiceInvStep, PTL
     DEF Spec, Service!Spec, RefinesLoadService

=============================================================================
