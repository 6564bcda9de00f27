---------------------------- MODULE ManagedStore ----------------------------
(***************************************************************************)
(* The Core Data store behind RKManagedObjectStore, for one entity with a  *)
(* primary key.  The main thread and the background thread of every load   *)
(* have a context of their own: each looks rows up in the store as it was  *)
(* when it first needed them, and commits what it changed when it saves.   *)
(* RKManagedObjectLoader maps a GET's response with                        *)
(* findOrCreateInstanceOfEntity:, deletes the rows the response lacks,     *)
(* maps a POST's response onto its target and deletes a DELETE's target.   *)
(*                                                                         *)
(* A row is an object ID: it is never used for a second object.  Rows have *)
(* a primary key, or NoKey until the server has given them one.            *)
(***************************************************************************)
EXTENDS FiniteSets

CONSTANTS
    Keys, NoKey,   \* primary keys of the server's resources
    Rows, NoRow,   \* managed object IDs; their number is the model's bound
    Loads,         \* managed object loaders, each sent once
    Method,        \* the HTTP method of each
    Filter         \* the keys a GET's resource path asks for

ASSUME StoreAssumption ==
    /\ NoKey \notin Keys /\ NoRow \notin Rows
    /\ Method \in [Loads -> {"GET", "POST", "DELETE"}]
    /\ Filter \in [Loads -> SUBSET Keys]

VARIABLES
    server,        \* the keys the server has
    issued,        \* the keys it has ever given out
    used,          \* the rows ever allocated
    store,         \* the rows of the persistent store
    key,           \* their primary keys
    inserted,      \* rows the main context has inserted and not saved
    deleted,       \* rows it has deleted and not saved
    phase,         \* where each load stands
    target,        \* its target object
    isNew,         \* loads with _deleteObjectOnFailure
    response,      \* the keys in its response
    results,       \* the rows its response was mapped to, with their keys
    created,       \* rows its background context has inserted
    doomed,        \* rows its background context has deleted
    contended,     \* history: keys that two loads were mapping at once
    quiet          \* history: loads mapped, and alone in saving since

serverVars  == <<server, issued>>
mainVars    == <<inserted, deleted>>
requestVars == <<target, isNew>>
workVars    == <<response, results, created, doomed>>
vars == <<serverVars, used, store, key, mainVars, phase, requestVars, workVars,
          contended, quiet>>

Phases == {"idle", "queued", "sent", "answered", "mapped", "processed",
           "saved", "refused", "stuck"}

RowsFor(k) == {r \in store : key[r] = k}

RowsOf(l) == DOMAIN results[l]

\* The keys load l is about to give a row to: a GET decides which rows they
\* get when it is mapped, a POST's key is the server's from its answer on.
Claims(l) ==
    IF \/ phase[l] \in {"mapped", "processed"}
       \/ Method[l] = "POST" /\ phase[l] = "answered"
    THEN response[l] ELSE {}

\* A save that changes the store disturbs the loads it does not belong to.
Quieted(own) ==
    quiet' = IF store' = store /\ key' = key THEN quiet ELSE quiet \cap own

-----------------------------------------------------------------------------
Init ==
    /\ server \in SUBSET Keys /\ issued = server
    /\ used = {} /\ store = {} /\ key = [r \in Rows |-> NoKey]
    /\ inserted = {} /\ deleted = {}
    /\ phase = [l \in Loads |-> "idle"]
    /\ target = [l \in Loads |-> NoRow] /\ isNew = {}
    /\ response = [l \in Loads |-> {}]
    /\ results = [l \in Loads |-> [r \in {} |-> NoKey]]
    /\ created = [l \in Loads |-> {}] /\ doomed = [l \in Loads |-> {}]
    /\ contended = {} /\ quiet = {}

(* The main thread.                                                        *)

\* loadObjectsAtResourcePath: and its dispatch; a GET has no target here.
Get(l) ==
    /\ Method[l] = "GET" /\ phase[l] = "idle"
    /\ phase' = [phase EXCEPT ![l] = "sent"]
    /\ UNCHANGED <<serverVars, used, store, key, mainVars, requestVars,
                   workVars, contended, quiet>>

\* postObject: with an object made for it, which the main context inserts.
PostNew(l, r) ==
    /\ Method[l] = "POST" /\ phase[l] = "idle"
    /\ r \notin used
    /\ used' = used \cup {r}
    /\ inserted' = inserted \cup {r}
    /\ target' = [target EXCEPT ![l] = r]
    /\ phase' = [phase EXCEPT ![l] = "queued"]
    /\ UNCHANGED <<serverVars, store, key, deleted, isNew, workVars,
                   contended, quiet>>

\* postObject: or deleteObject: with an object the main context has.
SendExisting(l, r) ==
    /\ Method[l] \in {"POST", "DELETE"} /\ phase[l] = "idle"
    /\ r \in (store \cup inserted) \ deleted
    /\ Method[l] = "DELETE" => r \in store /\ key[r] # NoKey
    /\ target' = [target EXCEPT ![l] = r]
    /\ phase' = [phase EXCEPT ![l] = "queued"]
    /\ UNCHANGED <<serverVars, used, store, key, mainVars, isNew, workVars,
                   contended, quiet>>

\* The application deletes an object it has just posted.
DeleteTarget(l) ==
    /\ Method[l] = "POST" /\ target[l] \in (store \cup inserted) \ deleted
    /\ inserted' = inserted \ {target[l]}
    /\ deleted' = IF target[l] \in inserted THEN deleted
                  ELSE deleted \cup {target[l]}
    /\ UNCHANGED <<serverVars, used, store, key, phase, requestVars, workVars,
                   contended, quiet>>

\* Faulty variant of Dispatch that leaves what it saved pending.
DispatchKeepsPending(l) ==
    /\ phase[l] = "queued"
    /\ isNew' = IF target[l] \in inserted THEN isNew \cup {l} ELSE isNew
    /\ store' = (store \cup inserted) \ deleted
    /\ key' = key
    /\ phase' = [phase EXCEPT ![l] = "sent"]
    /\ Quieted({})
    /\ UNCHANGED <<serverVars, used, mainVars, target, workVars, contended>>

\* prepareURLRequest, when the queue gets to the load: whether the target has
\* never been saved is noted, and the main context is saved.  (A target that
\* was deleted before it was ever saved is new too, but nothing comes of it.)
Dispatch(l) ==
    /\ phase[l] = "queued"
    /\ isNew' = IF target[l] \in inserted THEN isNew \cup {l} ELSE isNew
    /\ store' = (store \cup inserted) \ deleted
    /\ key' = key
    /\ inserted' = {} /\ deleted' = {}
    /\ phase' = [phase EXCEPT ![l] = "sent"]
    /\ Quieted({})
    /\ UNCHANGED <<serverVars, used, target, workVars, contended>>

\* The server answers: with the resources the path asks for,
AnswerGet(l) ==
    /\ Method[l] = "GET" /\ phase[l] = "sent"
    /\ response' = [response EXCEPT ![l] = server \cap Filter[l]]
    /\ phase' = [phase EXCEPT ![l] = "answered"]
    /\ UNCHANGED <<serverVars, used, store, key, mainVars, requestVars,
                   results, created, doomed, contended, quiet>>

\* with the resource it made, under a key it has never used,
AnswerPost(l, k) ==
    /\ Method[l] = "POST" /\ phase[l] = "sent"
    /\ k \notin issued
    /\ server' = server \cup {k} /\ issued' = issued \cup {k}
    /\ response' = [response EXCEPT ![l] = {k}]
    /\ phase' = [phase EXCEPT ![l] = "answered"]
    /\ UNCHANGED <<used, store, key, mainVars, requestVars,
                   results, created, doomed, contended, quiet>>

\* or with nothing, having removed the target's resource.
AnswerDelete(l) ==
    /\ Method[l] = "DELETE" /\ phase[l] = "sent"
    /\ server' = server \ {key[target[l]]}
    /\ phase' = [phase EXCEPT ![l] = "answered"]
    /\ UNCHANGED <<issued, used, store, key, mainVars, requestVars, workVars,
                   contended, quiet>>

\* Another client removes a resource.
Remove(k) ==
    /\ k \in server
    /\ server' = server \ {k}
    /\ UNCHANGED <<issued, used, store, key, mainVars, phase, requestVars,
                   workVars, contended, quiet>>

\* Faulty variant of AnswerError that does not look at _deleteObjectOnFailure.
AnswerErrorDeletes(l) ==
    /\ phase[l] = "sent" /\ Method[l] # "GET"
    /\ store' = (store \cup inserted) \ (deleted \cup {target[l]})
    /\ inserted' = {} /\ deleted' = {}
    /\ key' = key
    /\ phase' = [phase EXCEPT ![l] = "refused"]
    /\ Quieted({})
    /\ UNCHANGED <<serverVars, used, requestVars, workVars, contended>>

\* Faulty variant of AnswerError that deletes and does not save.
AnswerErrorUnsaved(l) ==
    /\ phase[l] = "sent"
    /\ deleted' = IF l \in isNew THEN deleted \cup {target[l]} ELSE deleted
    /\ phase' = [phase EXCEPT ![l] = "refused"]
    /\ UNCHANGED <<serverVars, used, store, key, inserted, requestVars,
                   workVars, contended, quiet>>

\* handleResponseError, on the main thread: a target that was new when it was
\* sent is deleted, and the main context is saved with whatever it holds.
AnswerError(l) ==
    /\ phase[l] = "sent"
    /\ IF l \in isNew
       THEN /\ store' = (store \cup inserted) \ (deleted \cup {target[l]})
            /\ inserted' = {} /\ deleted' = {}
       ELSE UNCHANGED <<store, mainVars>>
    /\ key' = key
    /\ phase' = [phase EXCEPT ![l] = "refused"]
    /\ Quieted({})
    /\ UNCHANGED <<serverVars, used, requestVars, workVars, contended>>

(* The background thread of a load.                                        *)

\* The rows that findOrCreateInstanceOfEntity: gives the keys of a response: a
\* row the store had for the key when the cache was filled, or a new one.
FoundOrCreated(keys) ==
    {found \in [keys -> store \cup (Rows \ used)] :
        /\ \A k \in keys :
              found[k] \in IF RowsFor(k) # {} THEN RowsFor(k) ELSE Rows \ used
        /\ \A j, k \in keys : found[j] = found[k] => j = k}

\* Faulty variant of MapGet that does not put the rows it inserts into the
\* cache: a key that the response mentions twice is inserted twice.
MapGetForgets(l) ==
    /\ Method[l] = "GET" /\ phase[l] = "answered"
    /\ \E again \in SUBSET (Rows \ used), found \in FoundOrCreated(response[l]) :
          LET rows == {found[k] : k \in response[l]} \cup again
          IN  /\ again # {} => \E k \in response[l] : RowsFor(k) = {}
              /\ results' = [results EXCEPT ![l] = [r \in rows |->
                    CHOOSE k \in response[l] : found[k] = r \/ r \in again]]
              /\ created' = [created EXCEPT ![l] = rows \ store]
    /\ used' = used \cup created'[l]
    /\ contended' = contended \cup
          {k \in response[l] : \E m \in Loads \ {l} : k \in Claims(m)}
    /\ quiet' = quiet \cup {l}
    /\ phase' = [phase EXCEPT ![l] = "mapped"]
    /\ UNCHANGED <<serverVars, store, key, mainVars, requestVars,
                   response, doomed>>

\* The elements of a GET's response are looked up one by one, but in the same
\* cache, filled from the store at the first lookup.
MapGet(l) ==
    /\ Method[l] = "GET" /\ phase[l] = "answered"
    /\ \E found \in FoundOrCreated(response[l]) :
          LET rows == {found[k] : k \in response[l]}
          IN  /\ results' = [results EXCEPT ![l] =
                    [r \in rows |-> CHOOSE k \in response[l] : found[k] = r]]
              /\ created' = [created EXCEPT ![l] = rows \ store]
    /\ used' = used \cup created'[l]
    /\ contended' = contended \cup
          {k \in response[l] : \E m \in Loads \ {l} : k \in Claims(m)}
    /\ quiet' = quiet \cup {l}
    /\ phase' = [phase EXCEPT ![l] = "mapped"]
    /\ UNCHANGED <<serverVars, store, key, mainVars, requestVars,
                   response, doomed>>

\* A response with a target is mapped onto that thread's copy of it.
MapOntoTarget(l) ==
    /\ Method[l] \in {"POST", "DELETE"} /\ phase[l] = "answered"
    /\ results' = [results EXCEPT ![l] =
          [r \in {target[l] : k \in response[l]} |->
              CHOOSE k \in response[l] : TRUE]]
    /\ quiet' = quiet \cup {l}
    /\ phase' = [phase EXCEPT ![l] = "mapped"]
    /\ UNCHANGED <<serverVars, used, store, key, mainVars, requestVars,
                   response, created, doomed, contended>>

\* Faulty variant of ProcessMapping that never cleans up.
ProcessMappingSkipsGet(l) ==
    /\ phase[l] = "mapped"
    /\ doomed' = [doomed EXCEPT ![l] =
          IF Method[l] = "DELETE" THEN {target[l]} ELSE {}]
    /\ phase' = [phase EXCEPT ![l] = "processed"]
    /\ UNCHANGED <<serverVars, used, store, key, mainVars, requestVars,
                   response, results, created, contended, quiet>>

\* What processMappingResult: deletes before it saves: a DELETE's target, and
\* for a GET every row of the entity that is missing from the result.
ProcessMapping(l) ==
    /\ phase[l] = "mapped"
    /\ doomed' = [doomed EXCEPT ![l] =
          CASE Method[l] = "GET"    -> store \ RowsOf(l)
            [] Method[l] = "DELETE" -> {target[l]}
            [] OTHER                -> {}]
    /\ phase' = [phase EXCEPT ![l] = "processed"]
    /\ UNCHANGED <<serverVars, used, store, key, mainVars, requestVars,
                   response, results, created, contended, quiet>>

\* The background context is saved under NSOverwriteMergePolicy.  A row it has
\* changed and another context has deleted may come back, as this context knew
\* it; the key of a row it has only found is no change.
Save(l) ==
    /\ phase[l] = "processed"
    /\ \E revived \in SUBSET (RowsOf(l) \ (store \cup created[l])) :
          store' = (store \cup created[l] \cup revived) \ doomed[l]
    /\ key' = [r \in Rows |->
          IF r \in RowsOf(l) \cap store' /\ (r \notin store \/ Method[l] = "POST")
          THEN results[l][r] ELSE key[r]]
    /\ Quieted({l})
    /\ created' = [created EXCEPT ![l] = {}]
    /\ doomed' = [doomed EXCEPT ![l] = {}]
    /\ phase' = [phase EXCEPT ![l] = "saved"]
    /\ UNCHANGED <<serverVars, used, mainVars, requestVars, response, results,
                   contended>>

\* The save fails; the context is lost with its thread.
SaveFails(l) ==
    /\ phase[l] = "processed"
    /\ created' = [created EXCEPT ![l] = {}]
    /\ doomed' = [doomed EXCEPT ![l] = {}]
    /\ phase' = [phase EXCEPT ![l] = "stuck"]
    /\ UNCHANGED <<serverVars, used, store, key, mainVars, requestVars,
                   response, results, contended, quiet>>

Next ==
    \/ \E l \in Loads :
          \/ Get(l) \/ DeleteTarget(l) \/ Dispatch(l)
          \/ AnswerGet(l) \/ AnswerDelete(l) \/ AnswerError(l)
          \/ MapGet(l) \/ MapOntoTarget(l) \/ ProcessMapping(l)
          \/ Save(l) \/ SaveFails(l)
    \/ \E l \in Loads, r \in Rows : PostNew(l, r) \/ SendExisting(l, r)
    \/ \E l \in Loads, k \in Keys : AnswerPost(l, k)
    \/ \E k \in Keys : Remove(k)

Spec == Init /\ [][Next]_vars

-----------------------------------------------------------------------------
(* Properties.                                                             *)

\* The store holds rows that were allocated, a row with a key has one the
\* server has given out, and a background context works on its own rows.
TypeOK ==
    /\ server \subseteq issued /\ issued \subseteq Keys
    /\ used \subseteq Rows
    /\ store \subseteq used /\ inserted \subseteq used \ store
    /\ deleted \subseteq used
    /\ key \in [Rows -> issued \cup {NoKey}]
    /\ phase \in [Loads -> Phases]
    /\ target \in [Loads -> used \cup {NoRow}] /\ isNew \subseteq Loads
    /\ response \in [Loads -> SUBSET issued]
    /\ DOMAIN results = Loads
    /\ \A l \in Loads : /\ RowsOf(l) \subseteq used
                        /\ results[l] \in [RowsOf(l) -> response[l]]
    /\ created \in [Loads -> SUBSET used] /\ doomed \in [Loads -> SUBSET used]
    /\ contended \subseteq issued /\ quiet \subseteq Loads

\* The entity cache of a thread is filled once and never looks at the store
\* again (RKManagedObjectStore.m:402): two loads that map the same key at the
\* same time each insert a row for it.  That is the only way to a duplicate.
UniqueKeys ==
    \A r, s \in store :
        key[r] = key[s] /\ r # s => key[r] \in contended \cup {NoKey}

\* A GET that nobody disturbed leaves the store with exactly what the server
\* answered: one row for each key, the one its delegate is told of, and none
\* besides, whatever the store held before (RKManagedObjectLoader.m:105).
QuietGetMirrorsServer ==
    \A l \in quiet :
        Method[l] = "GET" /\ phase[l] = "saved" =>
            /\ store = RowsOf(l)
            /\ {key[r] : r \in store} = response[l]
            /\ \A r, s \in store : key[r] = key[s] => r = s

\* A refused POST leaves no trace of an object that was new when it was sent
\* (RKManagedObjectLoader.m:99 and :169), unless it was posted twice.  An object
\* that an earlier save of the main context took along does not count as new.
RefusedPostLeavesNothing ==
    \A l \in isNew :
        phase[l] = "refused" /\ target[l] \in store =>
            \E m \in Loads \ {l} : target[m] = target[l]

\* An error response deletes no object the server knows, unless the object was
\* posted twice (the flag is taken when the request is sent, :99).
ErrorsSpareKnownRows ==
    [][\A l \in Loads :
        phase[l] = "sent" /\ phase'[l] = "refused" =>
            \A r \in (store \ store') \ deleted :
                key[r] # NoKey =>
                    \E m \in Loads \ {l} : target[m] = target[l]]_vars

\* Claimed, not kept: orphan cleanup is there for "server-side object
\* deletions" (RKManagedObjectLoader.m:123), so no resource that the server
\* still has loses its last row to it.
CleanupIsOfServerDeletions ==
    [][\A l \in Loads :
        Method[l] = "GET" /\ phase[l] = "processed" /\ phase'[l] = "saved" =>
            \A k \in server : RowsFor(k) # {} => RowsFor(k)' # {}]_vars
=============================================================================
