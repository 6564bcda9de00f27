------------------------ MODULE ManagedStoreProofs ------------------------
(***************************************************************************)
(* Theorems about ManagedStore, for any number of loads, keys and rows.    *)
(***************************************************************************)
EXTENDS ManagedStore, TLAPS

ClaimPhases == {"mapped", "processed"}

\* What TypeOK rests on: a load that is under way has its target and response,
\* and no two contexts have inserted the same row.
OwnInv ==
    /\ \A l \in Loads :
          /\ phase[l] # "idle" /\ Method[l] # "GET" => target[l] \in used
          /\ phase[l] = "idle" => target[l] = NoRow
          /\ phase[l] \notin {"idle", "queued"} => target[l] \notin inserted
          /\ Method[l] = "DELETE" => target[l] \notin inserted /\ response[l] = {}
          /\ Method[l] = "GET" => target[l] = NoRow /\ phase[l] # "queued"
          /\ Method[l] = "POST" => RowsOf(l) \subseteq {target[l]}
          /\ phase[l] \in {"idle", "queued"} => response[l] = {}
          /\ phase[l] \notin ClaimPhases \cup {"saved", "stuck"} => RowsOf(l) = {}
          /\ RowsOf(l) \cap inserted = {}
          /\ created[l] \subseteq RowsOf(l) \ store
          /\ Method[l] # "GET" => created[l] = {}
          /\ \A r \in created[l] : \A m \in Loads :
                target[m] # r /\ (m # l => r \notin RowsOf(m))
    /\ \A r \in Rows : r \in inserted \/ r \notin used => key[r] = NoKey
    /\ deleted \cap inserted = {}

TypeInv == TypeOK /\ OwnInv

\* A key that only one load has claimed has one row at most, and the load that
\* claims it is about to use that row.
ClaimInv ==
    /\ \A l \in Loads : \A r, s \in RowsOf(l) : results[l][r] = results[l][s] => r = s
    /\ \A k \in Keys \ contended :
          /\ \A r, s \in store : key[r] = k /\ key[s] = k => r = s
          /\ \A l, m \in Loads : k \in Claims(l) /\ k \in Claims(m) => l = m
          /\ \A l \in Loads : k \in Claims(l) =>
                \A s \in store : key[s] = k =>
                    Method[l] = "GET" /\ s \in RowsOf(l) /\ results[l][s] = k

\* What an undisturbed GET knows of the store.
QuietOK(l) ==
    /\ phase[l] \in ClaimPhases \cup {"saved", "stuck"}
    /\ Method[l] = "GET" =>
          /\ \A k \in response[l] : \E r \in RowsOf(l) : results[l][r] = k
          /\ phase[l] \in ClaimPhases \cup {"saved"} =>
                \A r \in RowsOf(l) \cap store : key[r] = results[l][r]
          /\ phase[l] \in ClaimPhases => created[l] = RowsOf(l) \ store
          /\ phase[l] = "processed" => doomed[l] = store \ RowsOf(l)
          /\ phase[l] = "saved" => store = RowsOf(l)

QuietInv == \A l \in quiet : QuietOK(l)

\* An object that was new when it was posted, and was posted once, has no key
\* and is nobody else's result.
PostedOnce(l) == \A m \in Loads \ {l} : target[m] # target[l]

NewOK(l) ==
    /\ phase[l] \notin {"idle", "queued"} /\ Method[l] = "POST"
    /\ PostedOnce(l) /\ phase[l] \in {"sent", "refused"} =>
          /\ key[target[l]] = NoKey
          /\ \A m \in Loads \ {l} : target[l] \notin RowsOf(m)
          /\ phase[l] = "refused" => target[l] \notin store

NewInv == \A l \in isNew : NewOK(l)

-----------------------------------------------------------------------------
\* Get keeps the type invariant.
LEMMA TypeGet ==
    ASSUME TypeInv, NEW l \in Loads, Get(l)
    PROVE TypeInv'
<1>1. TypeOK'
  BY StoreAssumption, SMTT(20)
     DEF TypeInv, TypeOK, OwnInv, Get, serverVars, mainVars, requestVars,
         workVars, RowsOf, Phases, ClaimPhases, Quieted
<1>2. OwnInv'
  BY StoreAssumption, SMTT(20)
     DEF TypeInv, TypeOK, OwnInv, Get, serverVars, mainVars, requestVars,
         workVars, RowsOf, Phases, ClaimPhases, Quieted
<1> QED BY <1>1, <1>2 DEF TypeInv

\* PostNew keeps the type invariant.
LEMMA TypePostNew ==
    ASSUME TypeInv, NEW l \in Loads, NEW r \in Rows, PostNew(l, r)
    PROVE TypeInv'
<1>1. TypeOK'
  BY StoreAssumption, SMTT(20)
     DEF TypeInv, TypeOK, OwnInv, PostNew, serverVars, mainVars,
         requestVars, workVars, RowsOf, Phases, ClaimPhases, Quieted
<1>2. OwnInv'
  BY StoreAssumption, SMTT(20)
     DEF TypeInv, TypeOK, OwnInv, PostNew, serverVars, mainVars,
         requestVars, workVars, RowsOf, Phases, ClaimPhases, Quieted
<1> QED BY <1>1, <1>2 DEF TypeInv

\* SendExisting keeps the type invariant.
LEMMA TypeSendExisting ==
    ASSUME TypeInv, NEW l \in Loads, NEW r \in Rows, SendExisting(l, r)
    PROVE TypeInv'
<1>1. TypeOK'
  BY StoreAssumption, SMTT(20)
     DEF TypeInv, TypeOK, OwnInv, SendExisting, serverVars, mainVars,
         requestVars, workVars, RowsOf, Phases, ClaimPhases, Quieted
<1>2. OwnInv'
  BY StoreAssumption, SMTT(20)
     DEF TypeInv, TypeOK, OwnInv, SendExisting, serverVars, mainVars,
         requestVars, workVars, RowsOf, Phases, ClaimPhases, Quieted
<1> QED BY <1>1, <1>2 DEF TypeInv

\* DeleteTarget keeps the type invariant.
LEMMA TypeDeleteTarget ==
    ASSUME TypeInv, NEW l \in Loads, DeleteTarget(l)
    PROVE TypeInv'
<1>1. TypeOK'
  BY StoreAssumption, SMTT(20)
     DEF TypeInv, TypeOK, OwnInv, DeleteTarget, serverVars, mainVars,
         requestVars, workVars, RowsOf, Phases, ClaimPhases, Quieted
<1>2. OwnInv'
  BY StoreAssumption, SMTT(20)
     DEF TypeInv, TypeOK, OwnInv, DeleteTarget, serverVars, mainVars,
         requestVars, workVars, RowsOf, Phases, ClaimPhases, Quieted
<1> QED BY <1>1, <1>2 DEF TypeInv

\* Dispatch keeps the type invariant.
LEMMA TypeDispatch ==
    ASSUME TypeInv, NEW l \in Loads, Dispatch(l)
    PROVE TypeInv'
<1>1. TypeOK'
  BY StoreAssumption, SMTT(20)
     DEF TypeInv, TypeOK, OwnInv, Dispatch, serverVars, mainVars,
         requestVars, workVars, RowsOf, Phases, ClaimPhases, Quieted
<1>2. OwnInv'
  BY StoreAssumption, SMTT(20)
     DEF TypeInv, TypeOK, OwnInv, Dispatch, serverVars, mainVars,
         requestVars, workVars, RowsOf, Phases, ClaimPhases, Quieted
<1> QED BY <1>1, <1>2 DEF TypeInv

\* AnswerGet keeps the type invariant.
LEMMA TypeAnswerGet ==
    ASSUME TypeInv, NEW l \in Loads, AnswerGet(l)
    PROVE TypeInv'
<1>1. TypeOK'
  BY StoreAssumption, SMTT(20)
     DEF TypeInv, TypeOK, OwnInv, AnswerGet, serverVars, mainVars,
         requestVars, workVars, RowsOf, Phases, ClaimPhases, Quieted
<1>2. OwnInv'
  BY StoreAssumption, SMTT(20)
     DEF TypeInv, TypeOK, OwnInv, AnswerGet, serverVars, mainVars,
         requestVars, workVars, RowsOf, Phases, ClaimPhases, Quieted
<1> QED BY <1>1, <1>2 DEF TypeInv

\* AnswerPost keeps the type invariant.
LEMMA TypeAnswerPost ==
    ASSUME TypeInv, NEW l \in Loads, NEW k \in Keys, AnswerPost(l, k)
    PROVE TypeInv'
<1>1. TypeOK'
  BY StoreAssumption, SMTT(20)
     DEF TypeInv, TypeOK, OwnInv, AnswerPost, serverVars, mainVars,
         requestVars, workVars, RowsOf, Phases, ClaimPhases, Quieted
<1>2. OwnInv'
  BY StoreAssumption, SMTT(20)
     DEF TypeInv, TypeOK, OwnInv, AnswerPost, serverVars, mainVars,
         requestVars, workVars, RowsOf, Phases, ClaimPhases, Quieted
<1> QED BY <1>1, <1>2 DEF TypeInv

\* AnswerDelete keeps the type invariant.
LEMMA TypeAnswerDelete ==
    ASSUME TypeInv, NEW l \in Loads, AnswerDelete(l)
    PROVE TypeInv'
<1>1. TypeOK'
  BY StoreAssumption, SMTT(20)
     DEF TypeInv, TypeOK, OwnInv, AnswerDelete, serverVars, mainVars,
         requestVars, workVars, RowsOf, Phases, ClaimPhases, Quieted
<1>2. OwnInv'
  BY StoreAssumption, SMTT(20)
     DEF TypeInv, TypeOK, OwnInv, AnswerDelete, serverVars, mainVars,
         requestVars, workVars, RowsOf, Phases, ClaimPhases, Quieted
<1> QED BY <1>1, <1>2 DEF TypeInv

\* Remove keeps the type invariant.
LEMMA TypeRemove ==
    ASSUME TypeInv, NEW k \in Keys, Remove(k)
    PROVE TypeInv'
<1>1. TypeOK'
  BY StoreAssumption, SMTT(20)
     DEF TypeInv, TypeOK, OwnInv, Remove, serverVars, mainVars, requestVars,
         workVars, RowsOf, Phases, ClaimPhases, Quieted
<1>2. OwnInv'
  BY StoreAssumption, SMTT(20)
     DEF TypeInv, TypeOK, OwnInv, Remove, serverVars, mainVars, requestVars,
         workVars, RowsOf, Phases, ClaimPhases, Quieted
<1> QED BY <1>1, <1>2 DEF TypeInv

\* AnswerError keeps the type invariant.
LEMMA TypeAnswerError ==
    ASSUME TypeInv, NEW l \in Loads, AnswerError(l)
    PROVE TypeInv'
<1>1. TypeOK'
  BY StoreAssumption, SMTT(20)
     DEF TypeInv, TypeOK, OwnInv, AnswerError, serverVars, mainVars,
         requestVars, workVars, RowsOf, Phases, ClaimPhases, Quieted
<1>2. OwnInv'
  BY StoreAssumption, SMTT(20)
     DEF TypeInv, TypeOK, OwnInv, AnswerError, serverVars, mainVars,
         requestVars, workVars, RowsOf, Phases, ClaimPhases, Quieted
<1> QED BY <1>1, <1>2 DEF TypeInv

\* MapGet keeps the type invariant.
LEMMA TypeMapGet ==
    ASSUME TypeInv, NEW l \in Loads, MapGet(l)
    PROVE TypeInv'
<1>0. PICK found \in FoundOrCreated(response[l]) :
         /\ results' = [results EXCEPT ![l] =
               [r \in {found[k] : k \in response[l]} |->
                   CHOOSE k \in response[l] : found[k] = r]]
         /\ created' = [created EXCEPT
               ![l] = {found[k] : k \in response[l]} \ store]
  BY DEF MapGet
<1> DEFINE rows == {found[k] : k \in response[l]}
<1>1. rows \subseteq store \cup (Rows \ used)
  BY <1>0, SMTT(20) DEF FoundOrCreated, RowsFor
<1>2. RowsOf(l)' = rows /\ created'[l] = rows \ store
  BY <1>0, SMTT(20) DEF TypeInv, TypeOK, RowsOf
<1>3. \A m \in Loads \ {l} :
        RowsOf(m)' = RowsOf(m) /\ created'[m] = created[m]
  BY <1>0, SMTT(20) DEF TypeInv, TypeOK, RowsOf
<1>4. used' = used \cup (rows \ store)
  BY <1>2, SMTT(20) DEF MapGet
<1> HIDE DEF rows
<1>5. TypeOK'
  BY StoreAssumption, SMTT(20)
     DEF TypeInv, TypeOK, MapGet, serverVars, mainVars, requestVars,
         workVars, RowsOf, Phases, FoundOrCreated, RowsFor
<1>6. OwnInv'
  BY <1>1, <1>2, <1>3, <1>4, StoreAssumption, SMTT(20)
     DEF TypeInv, TypeOK, OwnInv, MapGet, mainVars, requestVars, ClaimPhases
<1> QED BY <1>5, <1>6 DEF TypeInv

\* MapOntoTarget keeps the type invariant.
LEMMA TypeMapOntoTarget ==
    ASSUME TypeInv, NEW l \in Loads, MapOntoTarget(l)
    PROVE TypeInv'
<1>1. TypeOK'
  BY StoreAssumption, SMTT(20)
     DEF TypeInv, TypeOK, OwnInv, MapOntoTarget, serverVars, mainVars,
         requestVars, workVars, RowsOf, Phases, ClaimPhases, Quieted
<1>2. OwnInv'
  BY StoreAssumption, SMTT(20)
     DEF TypeInv, TypeOK, OwnInv, MapOntoTarget, serverVars, mainVars,
         requestVars, workVars, RowsOf, Phases, ClaimPhases, Quieted
<1> QED BY <1>1, <1>2 DEF TypeInv

\* ProcessMapping keeps the type invariant.
LEMMA TypeProcessMapping ==
    ASSUME TypeInv, NEW l \in Loads, ProcessMapping(l)
    PROVE TypeInv'
<1>1. TypeOK'
  BY StoreAssumption, SMTT(20)
     DEF TypeInv, TypeOK, OwnInv, ProcessMapping, serverVars, mainVars,
         requestVars, workVars, RowsOf, Phases, ClaimPhases, Quieted
<1>2. OwnInv'
  BY StoreAssumption, SMTT(20)
     DEF TypeInv, TypeOK, OwnInv, ProcessMapping, serverVars, mainVars,
         requestVars, workVars, RowsOf, Phases, ClaimPhases, Quieted
<1> QED BY <1>1, <1>2 DEF TypeInv

\* Save keeps the type invariant.
LEMMA TypeSave ==
    ASSUME TypeInv, NEW l \in Loads, Save(l)
    PROVE TypeInv'
<1>1. TypeOK'
  BY StoreAssumption, SMTT(20)
     DEF TypeInv, TypeOK, OwnInv, Save, serverVars, mainVars, requestVars,
         workVars, RowsOf, Phases, ClaimPhases, Quieted
<1>2. OwnInv'
  BY StoreAssumption, SMTT(20)
     DEF TypeInv, TypeOK, OwnInv, Save, serverVars, mainVars, requestVars,
         workVars, RowsOf, Phases, ClaimPhases, Quieted
<1> QED BY <1>1, <1>2 DEF TypeInv

\* SaveFails keeps the type invariant.
LEMMA TypeSaveFails ==
    ASSUME TypeInv, NEW l \in Loads, SaveFails(l)
    PROVE TypeInv'
<1>1. TypeOK'
  BY StoreAssumption, SMTT(20)
     DEF TypeInv, TypeOK, OwnInv, SaveFails, serverVars, mainVars,
         requestVars, workVars, RowsOf, Phases, ClaimPhases, Quieted
<1>2. OwnInv'
  BY StoreAssumption, SMTT(20)
     DEF TypeInv, TypeOK, OwnInv, SaveFails, serverVars, mainVars,
         requestVars, workVars, RowsOf, Phases, ClaimPhases, Quieted
<1> QED BY <1>1, <1>2 DEF TypeInv

\* Get keeps the claims apart.
LEMMA ClaimGet ==
    ASSUME TypeInv, ClaimInv, NEW l \in Loads, Get(l)
    PROVE ClaimInv'
BY StoreAssumption, SMTT(20)
   DEF TypeInv, TypeOK, OwnInv, ClaimInv, Get, serverVars, mainVars,
       requestVars, workVars, RowsOf, Claims, ClaimPhases, PostedOnce,
       Quieted, RowsFor, FoundOrCreated

\* PostNew keeps the claims apart.
LEMMA ClaimPostNew ==
    ASSUME TypeInv, ClaimInv, NEW l \in Loads, NEW r \in Rows, PostNew(l, r)
    PROVE ClaimInv'
BY StoreAssumption, SMTT(20)
   DEF TypeInv, TypeOK, OwnInv, ClaimInv, PostNew, serverVars, mainVars,
       requestVars, workVars, RowsOf, Claims, ClaimPhases, PostedOnce,
       Quieted, RowsFor, FoundOrCreated

\* SendExisting keeps the claims apart.
LEMMA ClaimSendExisting ==
    ASSUME TypeInv, ClaimInv, NEW l \in Loads, NEW r \in Rows, SendExisting(l, r)
    PROVE ClaimInv'
BY StoreAssumption, SMTT(20)
   DEF TypeInv, TypeOK, OwnInv, ClaimInv, SendExisting, serverVars, mainVars,
       requestVars, workVars, RowsOf, Claims, ClaimPhases, PostedOnce,
       Quieted, RowsFor, FoundOrCreated

\* DeleteTarget keeps the claims apart.
LEMMA ClaimDeleteTarget ==
    ASSUME TypeInv, ClaimInv, NEW l \in Loads, DeleteTarget(l)
    PROVE ClaimInv'
BY StoreAssumption, SMTT(20)
   DEF TypeInv, TypeOK, OwnInv, ClaimInv, DeleteTarget, serverVars, mainVars,
       requestVars, workVars, RowsOf, Claims, ClaimPhases, PostedOnce,
       Quieted, RowsFor, FoundOrCreated

\* Dispatch keeps the claims apart.
LEMMA ClaimDispatch ==
    ASSUME TypeInv, ClaimInv, NEW l \in Loads, Dispatch(l)
    PROVE ClaimInv'
BY StoreAssumption, SMTT(20)
   DEF TypeInv, TypeOK, OwnInv, ClaimInv, Dispatch, serverVars, mainVars,
       requestVars, workVars, RowsOf, Claims, ClaimPhases, PostedOnce,
       Quieted, RowsFor, FoundOrCreated

\* AnswerGet keeps the claims apart.
LEMMA ClaimAnswerGet ==
    ASSUME TypeInv, ClaimInv, NEW l \in Loads, AnswerGet(l)
    PROVE ClaimInv'
BY StoreAssumption, SMTT(20)
   DEF TypeInv, TypeOK, OwnInv, ClaimInv, AnswerGet, serverVars, mainVars,
       requestVars, workVars, RowsOf, Claims, ClaimPhases, PostedOnce,
       Quieted, RowsFor, FoundOrCreated

\* AnswerPost keeps the claims apart.
LEMMA ClaimAnswerPost ==
    ASSUME TypeInv, ClaimInv, NEW l \in Loads, NEW k \in Keys, AnswerPost(l, k)
    PROVE ClaimInv'
BY StoreAssumption, SMTT(20)
   DEF TypeInv, TypeOK, OwnInv, ClaimInv, AnswerPost, serverVars, mainVars,
       requestVars, workVars, RowsOf, Claims, ClaimPhases, PostedOnce,
       Quieted, RowsFor, FoundOrCreated

\* AnswerDelete keeps the claims apart.
LEMMA ClaimAnswerDelete ==
    ASSUME TypeInv, ClaimInv, NEW l \in Loads, AnswerDelete(l)
    PROVE ClaimInv'
BY StoreAssumption, SMTT(20)
   DEF TypeInv, TypeOK, OwnInv, ClaimInv, AnswerDelete, serverVars, mainVars,
       requestVars, workVars, RowsOf, Claims, ClaimPhases, PostedOnce,
       Quieted, RowsFor, FoundOrCreated

\* Remove keeps the claims apart.
LEMMA ClaimRemove ==
    ASSUME TypeInv, ClaimInv, NEW k \in Keys, Remove(k)
    PROVE ClaimInv'
BY StoreAssumption, SMTT(20)
   DEF TypeInv, TypeOK, OwnInv, ClaimInv, Remove, serverVars, mainVars,
       requestVars, workVars, RowsOf, Claims, ClaimPhases, PostedOnce,
       Quieted, RowsFor, FoundOrCreated

\* AnswerError keeps the claims apart.
LEMMA ClaimAnswerError ==
    ASSUME TypeInv, ClaimInv, NEW l \in Loads, AnswerError(l)
    PROVE ClaimInv'
BY StoreAssumption, SMTT(20)
   DEF TypeInv, TypeOK, OwnInv, ClaimInv, AnswerError, serverVars, mainVars,
       requestVars, workVars, RowsOf, Claims, ClaimPhases, PostedOnce,
       Quieted, RowsFor, FoundOrCreated

\* MapGet keeps the claims apart.
LEMMA ClaimMapGet ==
    ASSUME TypeInv, ClaimInv, NEW l \in Loads, MapGet(l)
    PROVE ClaimInv'
BY StoreAssumption, SMTT(20)
   DEF TypeInv, TypeOK, OwnInv, ClaimInv, MapGet, serverVars, mainVars,
       requestVars, workVars, RowsOf, Claims, ClaimPhases, PostedOnce,
       Quieted, RowsFor, FoundOrCreated

\* MapOntoTarget keeps the claims apart.
LEMMA ClaimMapOntoTarget ==
    ASSUME TypeInv, ClaimInv, NEW l \in Loads, MapOntoTarget(l)
    PROVE ClaimInv'
BY StoreAssumption, SMTT(20)
   DEF TypeInv, TypeOK, OwnInv, ClaimInv, MapOntoTarget, serverVars, mainVars,
       requestVars, workVars, RowsOf, Claims, ClaimPhases, PostedOnce,
       Quieted, RowsFor, FoundOrCreated

\* ProcessMapping keeps the claims apart.
LEMMA ClaimProcessMapping ==
    ASSUME TypeInv, ClaimInv, NEW l \in Loads, ProcessMapping(l)
    PROVE ClaimInv'
BY StoreAssumption, SMTT(20)
   DEF TypeInv, TypeOK, OwnInv, ClaimInv, ProcessMapping, serverVars,
       mainVars, requestVars, workVars, RowsOf, Claims, ClaimPhases,
       PostedOnce, Quieted, RowsFor, FoundOrCreated

\* Save keeps the claims apart.
LEMMA ClaimSave ==
    ASSUME TypeInv, ClaimInv, NEW l \in Loads, Save(l)
    PROVE ClaimInv'
BY StoreAssumption, SMTT(20)
   DEF TypeInv, TypeOK, OwnInv, ClaimInv, Save, serverVars, mainVars,
       requestVars, workVars, RowsOf, Claims, ClaimPhases, PostedOnce,
       Quieted, RowsFor, FoundOrCreated

\* SaveFails keeps the claims apart.
LEMMA ClaimSaveFails ==
    ASSUME TypeInv, ClaimInv, NEW l \in Loads, SaveFails(l)
    PROVE ClaimInv'
BY StoreAssumption, SMTT(20)
   DEF TypeInv, TypeOK, OwnInv, ClaimInv, SaveFails, serverVars, mainVars,
       requestVars, workVars, RowsOf, Claims, ClaimPhases, PostedOnce,
       Quieted, RowsFor, FoundOrCreated

\* Get keeps what undisturbed loads know.
LEMMA QuietGet ==
    ASSUME TypeInv, QuietInv, NEW l \in Loads, Get(l)
    PROVE QuietInv'
BY StoreAssumption, SMTT(20)
   DEF TypeInv, TypeOK, OwnInv, QuietInv, QuietOK, Get, serverVars, mainVars,
       requestVars, workVars, RowsOf, Claims, ClaimPhases, PostedOnce,
       Quieted, RowsFor, FoundOrCreated

\* PostNew keeps what undisturbed loads know.
LEMMA QuietPostNew ==
    ASSUME TypeInv, QuietInv, NEW l \in Loads, NEW r \in Rows, PostNew(l, r)
    PROVE QuietInv'
BY StoreAssumption, SMTT(20)
   DEF TypeInv, TypeOK, OwnInv, QuietInv, QuietOK, PostNew, serverVars,
       mainVars, requestVars, workVars, RowsOf, Claims, ClaimPhases,
       PostedOnce, Quieted, RowsFor, FoundOrCreated

\* SendExisting keeps what undisturbed loads know.
LEMMA QuietSendExisting ==
    ASSUME TypeInv, QuietInv, NEW l \in Loads, NEW r \in Rows, SendExisting(l, r)
    PROVE QuietInv'
BY StoreAssumption, SMTT(20)
   DEF TypeInv, TypeOK, OwnInv, QuietInv, QuietOK, SendExisting, serverVars,
       mainVars, requestVars, workVars, RowsOf, Claims, ClaimPhases,
       PostedOnce, Quieted, RowsFor, FoundOrCreated

\* DeleteTarget keeps what undisturbed loads know.
LEMMA QuietDeleteTarget ==
    ASSUME TypeInv, QuietInv, NEW l \in Loads, DeleteTarget(l)
    PROVE QuietInv'
BY StoreAssumption, SMTT(20)
   DEF TypeInv, TypeOK, OwnInv, QuietInv, QuietOK, DeleteTarget, serverVars,
       mainVars, requestVars, workVars, RowsOf, Claims, ClaimPhases,
       PostedOnce, Quieted, RowsFor, FoundOrCreated

\* Dispatch keeps what undisturbed loads know.
LEMMA QuietDispatch ==
    ASSUME TypeInv, QuietInv, NEW l \in Loads, Dispatch(l)
    PROVE QuietInv'
BY StoreAssumption, SMTT(20)
   DEF TypeInv, TypeOK, OwnInv, QuietInv, QuietOK, Dispatch, serverVars,
       mainVars, requestVars, workVars, RowsOf, Claims, ClaimPhases,
       PostedOnce, Quieted, RowsFor, FoundOrCreated

\* AnswerGet keeps what undisturbed loads know.
LEMMA QuietAnswerGet ==
    ASSUME TypeInv, QuietInv, NEW l \in Loads, AnswerGet(l)
    PROVE QuietInv'
BY StoreAssumption, SMTT(20)
   DEF TypeInv, TypeOK, OwnInv, QuietInv, QuietOK, AnswerGet, serverVars,
       mainVars, requestVars, workVars, RowsOf, Claims, ClaimPhases,
       PostedOnce, Quieted, RowsFor, FoundOrCreated

\* AnswerPost keeps what undisturbed loads know.
LEMMA QuietAnswerPost ==
    ASSUME TypeInv, QuietInv, NEW l \in Loads, NEW k \in Keys, AnswerPost(l, k)
    PROVE QuietInv'
BY StoreAssumption, SMTT(20)
   DEF TypeInv, TypeOK, OwnInv, QuietInv, QuietOK, AnswerPost, serverVars,
       mainVars, requestVars, workVars, RowsOf, Claims, ClaimPhases,
       PostedOnce, Quieted, RowsFor, FoundOrCreated

\* AnswerDelete keeps what undisturbed loads know.
LEMMA QuietAnswerDelete ==
    ASSUME TypeInv, QuietInv, NEW l \in Loads, AnswerDelete(l)
    PROVE QuietInv'
BY StoreAssumption, SMTT(20)
   DEF TypeInv, TypeOK, OwnInv, QuietInv, QuietOK, AnswerDelete, serverVars,
       mainVars, requestVars, workVars, RowsOf, Claims, ClaimPhases,
       PostedOnce, Quieted, RowsFor, FoundOrCreated

\* Remove keeps what undisturbed loads know.
LEMMA QuietRemove ==
    ASSUME TypeInv, QuietInv, NEW k \in Keys, Remove(k)
    PROVE QuietInv'
BY StoreAssumption, SMTT(20)
   DEF TypeInv, TypeOK, OwnInv, QuietInv, QuietOK, Remove, serverVars,
       mainVars, requestVars, workVars, RowsOf, Claims, ClaimPhases,
       PostedOnce, Quieted, RowsFor, FoundOrCreated

\* AnswerError keeps what undisturbed loads know.
LEMMA QuietAnswerError ==
    ASSUME TypeInv, QuietInv, NEW l \in Loads, AnswerError(l)
    PROVE QuietInv'
BY StoreAssumption, SMTT(20)
   DEF TypeInv, TypeOK, OwnInv, QuietInv, QuietOK, AnswerError, serverVars,
       mainVars, requestVars, workVars, RowsOf, Claims, ClaimPhases,
       PostedOnce, Quieted, RowsFor, FoundOrCreated

\* MapGet keeps what undisturbed loads know.
LEMMA QuietMapGet ==
    ASSUME TypeInv, QuietInv, NEW l \in Loads, MapGet(l)
    PROVE QuietInv'
<1>0. PICK found \in FoundOrCreated(response[l]) :
         /\ results' = [results EXCEPT ![l] =
               [r \in {found[k] : k \in response[l]} |->
                   CHOOSE k \in response[l] : found[k] = r]]
         /\ created' = [created EXCEPT
               ![l] = {found[k] : k \in response[l]} \ store]
  BY DEF MapGet
<1> DEFINE rows == {found[k] : k \in response[l]}
<1>1. rows \subseteq store \cup (Rows \ used)
  BY <1>0, SMTT(20) DEF FoundOrCreated, RowsFor
<1>2. RowsOf(l)' = rows /\ created'[l] = rows \ store
  BY <1>0, SMTT(20) DEF TypeInv, TypeOK, RowsOf
<1>3. \A m \in Loads \ {l} :
        RowsOf(m)' = RowsOf(m) /\ created'[m] = created[m]
  BY <1>0, SMTT(20) DEF TypeInv, TypeOK, RowsOf
<1>4. used' = used \cup (rows \ store)
  BY <1>2, SMTT(20) DEF MapGet
<1>5. /\ \A k \in response[l] : found[k] \in rows
      /\ \A k \in response[l] : results'[l][found[k]] = k
  BY <1>0, SMTT(20) DEF TypeInv, TypeOK, FoundOrCreated
<1>7. \A r \in rows \cap store : key[r] = results'[l][r]
  BY <1>0, <1>5, SMTT(20) DEF TypeInv, TypeOK, FoundOrCreated, RowsFor
<1>6. \A m \in Loads \ {l} : results'[m] = results[m]
  BY <1>0, SMTT(20) DEF TypeInv, TypeOK
<1> HIDE DEF rows
<1>8. QuietOK(l)'
  <2>1. phase'[l] = "mapped" /\ store' = store /\ key' = key /\ response' = response
    BY SMTT(20) DEF TypeInv, TypeOK, MapGet
  <2>2. \A k \in response[l] : \E r \in RowsOf(l)' : results'[l][r] = k
    BY <1>2, <1>5
  <2>3. \A r \in RowsOf(l)' \cap store : key[r] = results'[l][r]
    BY <1>2, <1>7
  <2> QED BY <1>2, <2>1, <2>2, <2>3 DEF QuietOK, ClaimPhases
<1>9. ASSUME NEW m \in quiet, m # l, QuietOK(m) PROVE QuietOK(m)'
  <2>1. /\ RowsOf(m)' = RowsOf(m) /\ created'[m] = created[m]
        /\ phase'[m] = phase[m] /\ results'[m] = results[m]
    BY <1>3, <1>6, <1>9, SMTT(20) DEF TypeInv, TypeOK, MapGet
  <2>2. response' = response /\ store' = store /\ key' = key /\ doomed' = doomed
    BY DEF MapGet
  <2> QED BY <1>9, <2>1, <2>2, SMTT(20) DEF QuietOK
<1>10. quiet' = quiet \cup {l}
  BY DEF MapGet
<1> QED BY <1>8, <1>9, <1>10 DEF QuietInv

\* MapOntoTarget keeps what undisturbed loads know.
LEMMA QuietMapOntoTarget ==
    ASSUME TypeInv, QuietInv, NEW l \in Loads, MapOntoTarget(l)
    PROVE QuietInv'
BY StoreAssumption, SMTT(20)
   DEF TypeInv, TypeOK, OwnInv, QuietInv, QuietOK, MapOntoTarget, serverVars,
       mainVars, requestVars, workVars, RowsOf, Claims, ClaimPhases,
       PostedOnce, Quieted, RowsFor, FoundOrCreated

\* ProcessMapping keeps what undisturbed loads know.
LEMMA QuietProcessMapping ==
    ASSUME TypeInv, QuietInv, NEW l \in Loads, ProcessMapping(l)
    PROVE QuietInv'
BY StoreAssumption, SMTT(20)
   DEF TypeInv, TypeOK, OwnInv, QuietInv, QuietOK, ProcessMapping, serverVars,
       mainVars, requestVars, workVars, RowsOf, Claims, ClaimPhases,
       PostedOnce, Quieted, RowsFor, FoundOrCreated

\* Save keeps what undisturbed loads know.
LEMMA QuietSave ==
    ASSUME TypeInv, QuietInv, NEW l \in Loads, Save(l)
    PROVE QuietInv'
BY StoreAssumption, SMTT(20)
   DEF TypeInv, TypeOK, OwnInv, QuietInv, QuietOK, Save, serverVars, mainVars,
       requestVars, workVars, RowsOf, Claims, ClaimPhases, PostedOnce,
       Quieted, RowsFor, FoundOrCreated

\* SaveFails keeps what undisturbed loads know.
LEMMA QuietSaveFails ==
    ASSUME TypeInv, QuietInv, NEW l \in Loads, SaveFails(l)
    PROVE QuietInv'
BY StoreAssumption, SMTT(20)
   DEF TypeInv, TypeOK, OwnInv, QuietInv, QuietOK, SaveFails, serverVars,
       mainVars, requestVars, workVars, RowsOf, Claims, ClaimPhases,
       PostedOnce, Quieted, RowsFor, FoundOrCreated

\* Get keeps the objects that are new.
LEMMA NewGet ==
    ASSUME TypeInv, NewInv, NEW l \in Loads, Get(l)
    PROVE NewInv'
BY StoreAssumption, SMTT(20)
   DEF TypeInv, TypeOK, OwnInv, NewInv, NewOK, Get, serverVars, mainVars,
       requestVars, workVars, RowsOf, Claims, ClaimPhases, PostedOnce,
       Quieted, RowsFor, FoundOrCreated

\* PostNew keeps the objects that are new.
LEMMA NewPostNew ==
    ASSUME TypeInv, NewInv, NEW l \in Loads, NEW r \in Rows, PostNew(l, r)
    PROVE NewInv'
BY StoreAssumption, SMTT(20)
   DEF TypeInv, TypeOK, OwnInv, NewInv, NewOK, PostNew, serverVars, mainVars,
       requestVars, workVars, RowsOf, Claims, ClaimPhases, PostedOnce,
       Quieted, RowsFor, FoundOrCreated

\* SendExisting keeps the objects that are new.
LEMMA NewSendExisting ==
    ASSUME TypeInv, NewInv, NEW l \in Loads, NEW r \in Rows, SendExisting(l, r)
    PROVE NewInv'
BY StoreAssumption, SMTT(20)
   DEF TypeInv, TypeOK, OwnInv, NewInv, NewOK, SendExisting, serverVars,
       mainVars, requestVars, workVars, RowsOf, Claims, ClaimPhases,
       PostedOnce, Quieted, RowsFor, FoundOrCreated

\* DeleteTarget keeps the objects that are new.
LEMMA NewDeleteTarget ==
    ASSUME TypeInv, NewInv, NEW l \in Loads, DeleteTarget(l)
    PROVE NewInv'
BY StoreAssumption, SMTT(20)
   DEF TypeInv, TypeOK, OwnInv, NewInv, NewOK, DeleteTarget, serverVars,
       mainVars, requestVars, workVars, RowsOf, Claims, ClaimPhases,
       PostedOnce, Quieted, RowsFor, FoundOrCreated

\* Dispatch keeps the objects that are new.
LEMMA NewDispatch ==
    ASSUME TypeInv, NewInv, NEW l \in Loads, Dispatch(l)
    PROVE NewInv'
<1> SUFFICES ASSUME NEW m \in isNew'
             PROVE  NewOK(m)'
  BY DEF NewInv
<1>1. CASE m = l /\ target[l] \in inserted
  <2>1. Method[l] = "POST"
    <3>1. /\ Method[l] \in {"GET", "POST", "DELETE"}
          /\ inserted \subseteq Rows /\ NoRow \notin Rows
      BY StoreAssumption, SMTT(20) DEF TypeInv, TypeOK
    <3>2. /\ Method[l] = "GET" => target[l] = NoRow
          /\ Method[l] = "DELETE" => target[l] \notin inserted
      BY SMTT(20) DEF TypeInv, OwnInv
    <3> QED BY <1>1, <3>1, <3>2
  <2>2. key'[target'[l]] = NoKey /\ phase'[l] = "sent"
    BY <1>1, SMTT(20) DEF TypeInv, TypeOK, OwnInv, Dispatch
  <2>3. \A j \in Loads : target'[l] \notin RowsOf(j)'
    BY <1>1, SMTT(20) DEF TypeInv, TypeOK, OwnInv, Dispatch, workVars, RowsOf
  <2> QED BY <1>1, <2>1, <2>2, <2>3, SMTT(20) DEF NewOK
<1>2. CASE m \in isNew
  BY <1>2, StoreAssumption, SMTT(20)
     DEF TypeInv, TypeOK, OwnInv, NewInv, NewOK, Dispatch, workVars, RowsOf,
         PostedOnce
<1> QED BY <1>1, <1>2 DEF Dispatch

\* AnswerGet keeps the objects that are new.
LEMMA NewAnswerGet ==
    ASSUME TypeInv, NewInv, NEW l \in Loads, AnswerGet(l)
    PROVE NewInv'
BY StoreAssumption, SMTT(20)
   DEF TypeInv, TypeOK, OwnInv, NewInv, NewOK, AnswerGet, serverVars,
       mainVars, requestVars, workVars, RowsOf, Claims, ClaimPhases,
       PostedOnce, Quieted, RowsFor, FoundOrCreated

\* AnswerPost keeps the objects that are new.
LEMMA NewAnswerPost ==
    ASSUME TypeInv, NewInv, NEW l \in Loads, NEW k \in Keys, AnswerPost(l, k)
    PROVE NewInv'
BY StoreAssumption, SMTT(20)
   DEF TypeInv, TypeOK, OwnInv, NewInv, NewOK, AnswerPost, serverVars,
       mainVars, requestVars, workVars, RowsOf, Claims, ClaimPhases,
       PostedOnce, Quieted, RowsFor, FoundOrCreated

\* AnswerDelete keeps the objects that are new.
LEMMA NewAnswerDelete ==
    ASSUME TypeInv, NewInv, NEW l \in Loads, AnswerDelete(l)
    PROVE NewInv'
BY StoreAssumption, SMTT(20)
   DEF TypeInv, TypeOK, OwnInv, NewInv, NewOK, AnswerDelete, serverVars,
       mainVars, requestVars, workVars, RowsOf, Claims, ClaimPhases,
       PostedOnce, Quieted, RowsFor, FoundOrCreated

\* Remove keeps the objects that are new.
LEMMA NewRemove ==
    ASSUME TypeInv, NewInv, NEW k \in Keys, Remove(k)
    PROVE NewInv'
BY StoreAssumption, SMTT(20)
   DEF TypeInv, TypeOK, OwnInv, NewInv, NewOK, Remove, serverVars, mainVars,
       requestVars, workVars, RowsOf, Claims, ClaimPhases, PostedOnce,
       Quieted, RowsFor, FoundOrCreated

\* AnswerError keeps the objects that are new.
LEMMA NewAnswerError ==
    ASSUME TypeInv, NewInv, NEW l \in Loads, AnswerError(l)
    PROVE NewInv'
BY StoreAssumption, SMTT(20)
   DEF TypeInv, TypeOK, OwnInv, NewInv, NewOK, AnswerError, serverVars,
       mainVars, requestVars, workVars, RowsOf, Claims, ClaimPhases,
       PostedOnce, Quieted, RowsFor, FoundOrCreated

\* MapGet keeps the objects that are new.
LEMMA NewMapGet ==
    ASSUME TypeInv, NewInv, NEW l \in Loads, MapGet(l)
    PROVE NewInv'
BY StoreAssumption, SMTT(20)
   DEF TypeInv, TypeOK, OwnInv, NewInv, NewOK, MapGet, serverVars, mainVars,
       requestVars, workVars, RowsOf, Claims, ClaimPhases, PostedOnce,
       Quieted, RowsFor, FoundOrCreated

\* MapOntoTarget keeps the objects that are new.
LEMMA NewMapOntoTarget ==
    ASSUME TypeInv, NewInv, NEW l \in Loads, MapOntoTarget(l)
    PROVE NewInv'
BY StoreAssumption, SMTT(20)
   DEF TypeInv, TypeOK, OwnInv, NewInv, NewOK, MapOntoTarget, serverVars,
       mainVars, requestVars, workVars, RowsOf, Claims, ClaimPhases,
       PostedOnce, Quieted, RowsFor, FoundOrCreated

\* ProcessMapping keeps the objects that are new.
LEMMA NewProcessMapping ==
    ASSUME TypeInv, NewInv, NEW l \in Loads, ProcessMapping(l)
    PROVE NewInv'
BY StoreAssumption, SMTT(20)
   DEF TypeInv, TypeOK, OwnInv, NewInv, NewOK, ProcessMapping, serverVars,
       mainVars, requestVars, workVars, RowsOf, Claims, ClaimPhases,
       PostedOnce, Quieted, RowsFor, FoundOrCreated

\* Save keeps the objects that are new.
LEMMA NewSave ==
    ASSUME TypeInv, NewInv, NEW l \in Loads, Save(l)
    PROVE NewInv'
BY StoreAssumption, SMTT(20)
   DEF TypeInv, TypeOK, OwnInv, NewInv, NewOK, Save, serverVars, mainVars,
       requestVars, workVars, RowsOf, Claims, ClaimPhases, PostedOnce,
       Quieted, RowsFor, FoundOrCreated

\* SaveFails keeps the objects that are new.
LEMMA NewSaveFails ==
    ASSUME TypeInv, NewInv, NEW l \in Loads, SaveFails(l)
    PROVE NewInv'
BY StoreAssumption, SMTT(20)
   DEF TypeInv, TypeOK, OwnInv, NewInv, NewOK, SaveFails, serverVars,
       mainVars, requestVars, workVars, RowsOf, Claims, ClaimPhases,
       PostedOnce, Quieted, RowsFor, FoundOrCreated

\* Every step keeps TypeInv.
LEMMA TypeStep ==
    ASSUME TypeInv, [Next]_vars
    PROVE  TypeInv'
<1>1. CASE UNCHANGED vars
  BY <1>1
     DEF vars, serverVars, mainVars, requestVars, workVars, RowsOf, TypeInv,
         TypeOK, OwnInv
<1>2. CASE \E l \in Loads :
          \/ Get(l)
          \/ DeleteTarget(l)
          \/ Dispatch(l)
          \/ AnswerGet(l)
          \/ AnswerDelete(l)
          \/ AnswerError(l)
          \/ MapGet(l)
          \/ MapOntoTarget(l)
          \/ ProcessMapping(l)
          \/ Save(l)
          \/ SaveFails(l)
  BY <1>2, TypeGet, TypeDeleteTarget, TypeDispatch, TypeAnswerGet,
     TypeAnswerDelete, TypeAnswerError, TypeMapGet, TypeMapOntoTarget,
     TypeProcessMapping, TypeSave, TypeSaveFails
<1>3. CASE \E l \in Loads, r \in Rows : PostNew(l, r) \/ SendExisting(l, r)
  BY <1>3, TypePostNew, TypeSendExisting
<1>4. CASE \E l \in Loads, k \in Keys : AnswerPost(l, k)
  BY <1>4, TypeAnswerPost
<1>5. CASE \E k \in Keys : Remove(k)
  BY <1>5, TypeRemove
<1> QED BY <1>1, <1>2, <1>3, <1>4, <1>5 DEF Next

\* Every step keeps ClaimInv.
LEMMA ClaimStep ==
    ASSUME TypeInv, ClaimInv, [Next]_vars
    PROVE  ClaimInv'
<1>1. CASE UNCHANGED vars
  BY <1>1
     DEF vars, serverVars, mainVars, requestVars, workVars, RowsOf,
         ClaimInv, Claims
<1>2. CASE \E l \in Loads :
          \/ Get(l)
          \/ DeleteTarget(l)
          \/ Dispatch(l)
          \/ AnswerGet(l)
          \/ AnswerDelete(l)
          \/ AnswerError(l)
          \/ MapGet(l)
          \/ MapOntoTarget(l)
          \/ ProcessMapping(l)
          \/ Save(l)
          \/ SaveFails(l)
  BY <1>2, ClaimGet, ClaimDeleteTarget, ClaimDispatch, ClaimAnswerGet,
     ClaimAnswerDelete, ClaimAnswerError, ClaimMapGet, ClaimMapOntoTarget,
     ClaimProcessMapping, ClaimSave, ClaimSaveFails
<1>3. CASE \E l \in Loads, r \in Rows : PostNew(l, r) \/ SendExisting(l, r)
  BY <1>3, ClaimPostNew, ClaimSendExisting
<1>4. CASE \E l \in Loads, k \in Keys : AnswerPost(l, k)
  BY <1>4, ClaimAnswerPost
<1>5. CASE \E k \in Keys : Remove(k)
  BY <1>5, ClaimRemove
<1> QED BY <1>1, <1>2, <1>3, <1>4, <1>5 DEF Next

\* Every step keeps QuietInv.
LEMMA QuietStep ==
    ASSUME TypeInv, QuietInv, [Next]_vars
    PROVE  QuietInv'
<1>1. CASE UNCHANGED vars
  BY <1>1
     DEF vars, serverVars, mainVars, requestVars, workVars, RowsOf,
         QuietInv, QuietOK
<1>2. CASE \E l \in Loads :
          \/ Get(l)
          \/ DeleteTarget(l)
          \/ Dispatch(l)
          \/ AnswerGet(l)
          \/ AnswerDelete(l)
          \/ AnswerError(l)
          \/ MapGet(l)
          \/ MapOntoTarget(l)
          \/ ProcessMapping(l)
          \/ Save(l)
          \/ SaveFails(l)
  BY <1>2, QuietGet, QuietDeleteTarget, QuietDispatch, QuietAnswerGet,
     QuietAnswerDelete, QuietAnswerError, QuietMapGet, QuietMapOntoTarget,
     QuietProcessMapping, QuietSave, QuietSaveFails
<1>3. CASE \E l \in Loads, r \in Rows : PostNew(l, r) \/ SendExisting(l, r)
  BY <1>3, QuietPostNew, QuietSendExisting
<1>4. CASE \E l \in Loads, k \in Keys : AnswerPost(l, k)
  BY <1>4, QuietAnswerPost
<1>5. CASE \E k \in Keys : Remove(k)
  BY <1>5, QuietRemove
<1> QED BY <1>1, <1>2, <1>3, <1>4, <1>5 DEF Next

\* Every step keeps NewInv.
LEMMA NewStep ==
    ASSUME TypeInv, NewInv, [Next]_vars
    PROVE  NewInv'
<1>1. CASE UNCHANGED vars
  BY <1>1
     DEF vars, serverVars, mainVars, requestVars, workVars, RowsOf, NewInv,
         NewOK, PostedOnce
<1>2. CASE \E l \in Loads :
          \/ Get(l)
          \/ DeleteTarget(l)
          \/ Dispatch(l)
          \/ AnswerGet(l)
          \/ AnswerDelete(l)
          \/ AnswerError(l)
          \/ MapGet(l)
          \/ MapOntoTarget(l)
          \/ ProcessMapping(l)
          \/ Save(l)
          \/ SaveFails(l)
  BY <1>2, NewGet, NewDeleteTarget, NewDispatch, NewAnswerGet,
     NewAnswerDelete, NewAnswerError, NewMapGet, NewMapOntoTarget,
     NewProcessMapping, NewSave, NewSaveFails
<1>3. CASE \E l \in Loads, r \in Rows : PostNew(l, r) \/ SendExisting(l, r)
  BY <1>3, NewPostNew, NewSendExisting
<1>4. CASE \E l \in Loads, k \in Keys : AnswerPost(l, k)
  BY <1>4, NewAnswerPost
<1>5. CASE \E k \in Keys : Remove(k)
  BY <1>5, NewRemove
<1> QED BY <1>1, <1>2, <1>3, <1>4, <1>5 DEF Next

\* The initial states satisfy all four.
LEMMA InitInv ==
    ASSUME Init
    PROVE  TypeInv /\ ClaimInv /\ QuietInv /\ NewInv
<1>1. TypeOK
  BY StoreAssumption, SMTT(20) DEF Init, TypeOK, RowsOf, Phases
<1>2. OwnInv
  BY StoreAssumption, SMTT(20) DEF Init, OwnInv, RowsOf, ClaimPhases
<1>3. ClaimInv
  BY SMTT(20) DEF Init, ClaimInv, Claims, RowsOf
<1>4. QuietInv /\ NewInv
  BY DEF Init, QuietInv, NewInv
<1> QED BY <1>1, <1>2, <1>3, <1>4 DEF TypeInv

-----------------------------------------------------------------------------
\* Every reachable state satisfies the inductive invariant.
LEMMA Invariants == Spec => [](TypeInv /\ ClaimInv /\ QuietInv /\ NewInv)
<1>1. Init => TypeInv /\ ClaimInv /\ QuietInv /\ NewInv
  BY InitInv
<1>2. TypeInv /\ ClaimInv /\ QuietInv /\ NewInv /\ [Next]_vars
      => (TypeInv /\ ClaimInv /\ QuietInv /\ NewInv)'
  BY TypeStep, ClaimStep, QuietStep, NewStep
<1> QED BY <1>1, <1>2, PTL DEF Spec

\* The store, the contexts and the loads are what they should be: in
\* particular no context ever works on a row another one has not saved.
THEOREM TypeCorrect == Spec => []TypeOK
<1>1. TypeInv => TypeOK
  BY DEF TypeInv
<1> QED BY <1>1, Invariants, PTL

\* Two loads that map the same key at the same time are the only way to two
\* rows with that key (findOrCreateInstanceOfEntity:).
THEOREM KeysAreUnique == Spec => []UniqueKeys
<1>1. TypeInv /\ ClaimInv => UniqueKeys
  BY SMTT(20) DEF TypeInv, TypeOK, ClaimInv, UniqueKeys
<1> QED BY <1>1, Invariants, PTL

\* An undisturbed GET leaves the store with exactly what the server answered.
THEOREM QuietGetsMirrorServer == Spec => []QuietGetMirrorsServer
<1>1. TypeInv /\ ClaimInv /\ QuietInv => QuietGetMirrorsServer
  <2> SUFFICES ASSUME TypeInv, ClaimInv, QuietInv, NEW l \in quiet,
                      Method[l] = "GET", phase[l] = "saved"
               PROVE  /\ store = RowsOf(l)
                      /\ {key[r] : r \in store} = response[l]
                      /\ \A r, s \in store : key[r] = key[s] => r = s
    BY DEF QuietGetMirrorsServer
  <2>1. /\ store = RowsOf(l) /\ \A r \in store : key[r] = results[l][r]
        /\ \A k \in response[l] : \E r \in store : results[l][r] = k
    BY SMTT(20) DEF QuietInv, QuietOK
  <2>2. /\ \A r \in store : results[l][r] \in response[l]
        /\ \A r, s \in store : results[l][r] = results[l][s] => r = s
    BY <2>1, SMTT(20) DEF TypeInv, TypeOK, ClaimInv
  <2> QED BY <2>1, <2>2, SMTT(20)
<1> QED BY <1>1, Invariants, PTL

\* A refused POST leaves no trace of an object made for it and posted once.
THEOREM RefusedPostsLeaveNothing == Spec => []RefusedPostLeavesNothing
<1>1. NewInv => RefusedPostLeavesNothing
  BY DEF NewInv, NewOK, PostedOnce, RefusedPostLeavesNothing
<1> QED BY <1>1, Invariants, PTL

\* An error response deletes no object the server knows, if it was posted once.
THEOREM ErrorsSpareKnown == Spec => ErrorsSpareKnownRows
<1> DEFINE Spared ==
      \A l \in Loads :
        phase[l] = "sent" /\ phase'[l] = "refused" =>
            \A r \in (store \ store') \ deleted :
                key[r] # NoKey =>
                    \E m \in Loads \ {l} : target[m] = target[l]
<1>1. TypeInv /\ NewInv /\ [Next]_vars => [Spared]_vars
  <2> SUFFICES ASSUME TypeInv, NewInv, Next, NEW l \in Loads,
                      phase[l] = "sent", phase'[l] = "refused",
                      NEW r \in (store \ store') \ deleted, key[r] # NoKey,
                      PostedOnce(l)
               PROVE  FALSE
    BY DEF PostedOnce
  <2>1. AnswerError(l)
    <3>1. ASSUME NEW m \in Loads, AnswerError(m) PROVE m = l
      BY <3>1, SMTT(20) DEF AnswerError, TypeInv, TypeOK
    <3>2. ASSUME NEW m \in Loads, NEW s \in Rows,
                 PostNew(m, s) \/ SendExisting(m, s)
          PROVE  FALSE
      BY <3>2, SMTT(20) DEF PostNew, SendExisting, TypeInv, TypeOK
    <3>3. ASSUME NEW m \in Loads, NEW k \in Keys, AnswerPost(m, k) \/ Remove(k)
          PROVE  FALSE
      BY <3>3, SMTT(20) DEF AnswerPost, Remove, TypeInv, TypeOK
    <3>4. ASSUME NEW m \in Loads,
                 \/ Get(m) \/ DeleteTarget(m) \/ Dispatch(m)
                 \/ AnswerGet(m) \/ AnswerDelete(m)
          PROVE  FALSE
      BY <3>4, SMTT(20)
         DEF Get, DeleteTarget, Dispatch, AnswerGet, AnswerDelete,
             TypeInv, TypeOK
    <3>5. ASSUME NEW m \in Loads,
                 \/ MapGet(m) \/ MapOntoTarget(m) \/ ProcessMapping(m)
                 \/ Save(m) \/ SaveFails(m)
          PROVE  FALSE
      BY <3>5, SMTT(20)
         DEF MapGet, MapOntoTarget, ProcessMapping, Save, SaveFails,
             TypeInv, TypeOK
    <3> QED BY <3>1, <3>2, <3>3, <3>4, <3>5 DEF Next
  <2>2. l \in isNew /\ r = target[l]
    BY <2>1, SMTT(20) DEF AnswerError, TypeInv, TypeOK
  <2> QED BY <2>2 DEF NewInv, NewOK
<1>2. Spec => [][Spared]_vars
  BY <1>1, Invariants, PTL DEF Spec
<1> QED BY <1>2 DEF ErrorsSpareKnownRows

\* While the application makes no resources, the response to a GET of everything
\* has every key that the server still has.
CoversServer ==
    \A l \in Loads :
        /\ Method[l] = "GET" /\ Filter[l] = Keys
        /\ phase[l] \in {"answered", "mapped", "processed", "saved"}
        => server \subseteq response[l]

LEMMA CoversStep ==
    ASSUME \A l \in Loads : Method[l] # "POST",
           TypeOK, CoversServer, [Next]_vars
    PROVE  CoversServer'
<1> USE DEF TypeOK, CoversServer, vars, serverVars, mainVars, requestVars, workVars
<1>1. ASSUME NEW l \in Loads,
             \/ Get(l) \/ DeleteTarget(l) \/ Dispatch(l)
             \/ AnswerDelete(l) \/ AnswerError(l)
      PROVE  CoversServer'
  BY <1>1, SMTT(20) DEF Get, DeleteTarget, Dispatch, AnswerDelete, AnswerError
<1>2. ASSUME NEW l \in Loads, AnswerGet(l) PROVE CoversServer'
  BY <1>2, SMTT(20) DEF AnswerGet
<1>3. ASSUME NEW l \in Loads,
             \/ MapGet(l) \/ MapOntoTarget(l) \/ ProcessMapping(l)
             \/ Save(l) \/ SaveFails(l)
      PROVE  CoversServer'
  BY <1>3, SMTT(20) DEF MapGet, MapOntoTarget, ProcessMapping, Save, SaveFails
<1>4. ASSUME NEW l \in Loads, NEW r \in Rows, PostNew(l, r) \/ SendExisting(l, r)
      PROVE  CoversServer'
  BY <1>4, SMTT(20) DEF PostNew, SendExisting
<1>5. ASSUME NEW k \in Keys, Remove(k) PROVE CoversServer'
  BY <1>5, SMTT(20) DEF Remove
<1>6. CASE UNCHANGED vars
  BY <1>6
<1>7. ASSUME NEW l \in Loads, NEW k \in Keys, AnswerPost(l, k) PROVE FALSE
  BY <1>7 DEF AnswerPost
<1> QED BY <1>1, <1>2, <1>3, <1>4, <1>5, <1>6, <1>7 DEF Next

\* Where orphan cleanup is what its comment says (RKManagedObjectLoader.m:123):
\* if the application only reads and deletes, a GET that asks for everything and
\* that nobody disturbs leaves a row for every resource the server still has.
\* What CleanupIsOfServerDeletions loses takes a filtered path, a resource made
\* while the response was under way, or another load's save.
THEOREM FullReadsKeepServerRows ==
    ASSUME \A l \in Loads : Method[l] # "POST"
    PROVE  Spec => [](\A l \in quiet :
              Method[l] = "GET" /\ Filter[l] = Keys /\ phase[l] = "saved"
                  => \A k \in server : RowsFor(k) # {})
<1>1. Init => CoversServer
  BY DEF Init, CoversServer
<1>2. TypeOK /\ CoversServer /\ [Next]_vars => CoversServer'
  BY CoversStep
<1>3. Spec => []CoversServer
  BY <1>1, <1>2, TypeCorrect, PTL DEF Spec
<1>4. TypeOK /\ QuietGetMirrorsServer /\ CoversServer
      => \A l \in quiet :
            Method[l] = "GET" /\ Filter[l] = Keys /\ phase[l] = "saved"
                => \A k \in server : RowsFor(k) # {}
  BY DEF TypeOK, QuietGetMirrorsServer, CoversServer, RowsFor
<1> QED BY <1>3, <1>4, TypeCorrect, QuietGetsMirrorServer, PTL
=============================================================================
