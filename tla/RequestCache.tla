---------------------------- MODULE RequestCache ----------------------------
(***************************************************************************)
(* RKRequestCache and the part of RKRequest that consults it: the cache    *)
(* policies, the answers 200 and 304 of a server whose resources change,   *)
(* several requests for one resource on the wire at once, and an entry     *)
(* that is two files, written and removed one after the other, in a        *)
(* process that can be killed and on a disk that can be full.              *)
(*                                                                         *)
(* The main thread does all of this.  A handler that touches both files    *)
(* is cut into one step per file, between which (busy) nothing else runs   *)
(* but the process may die.  A resource is a succession of versions, each  *)
(* with its own entity tag.                                                *)
(***************************************************************************)
EXTENDS Integers

CONSTANTS
    Requests,    \* requests, each sent once by the application
    Keys,        \* cache keys: URL, method and parameters
    Key,         \* the cache key of each request
    Policy,      \* the cache policies of each request
    Deletes,     \* DELETE requests, which are not cacheable
    Tagged,      \* the keys whose resource is served with an ETag
    MaxVersion   \* how often a resource changes, a bound of the model

CachePolicies == {"LoadIfOffline", "LoadOnError", "Etag", "Enabled", "Timeout"}

ASSUME CacheAssumption ==
    /\ Key \in [Requests -> Keys]
    /\ Policy \in [Requests -> SUBSET CachePolicies]
    /\ Deletes \subseteq Requests
    /\ Tagged \subseteq Keys
    /\ MaxVersion \in Nat \ {0}

VARIABLES
    storage,      \* _storagePolicy
    body,         \* the body file of each entry: the version in it
    headers,      \* the headers file of each entry
    server,       \* the version of each resource at the server
    phase,        \* where each request stands
    tag,          \* the If-None-Match it was sent with
    answer,       \* what the server answered, and at which version
    busy,         \* what the main thread is in the middle of
    storing,      \* the request whose response it is storing
    removing,     \* the files it has yet to remove
    got,          \* how each request ended
    shown,        \* history: the version that requests with a cache saw last
    overlapped,   \* history: two requests for one key were on the wire
    crashed,      \* history: the process died in the middle of a handler
    writeFailed   \* history: a file could not be written

fileVars    == <<body, headers>>
requestVars == <<phase, tag, answer>>
mainVars    == <<busy, storing, removing>>
historyVars == <<overlapped, crashed, writeFailed>>
vars == <<storage, fileVars, server, requestVars, mainVars, got, shown, historyVars>>

Storages == {"disabled", "session", "permanent"}
Phases   == {"new", "wire", "answered", "ended"}
Stages   == {"idle", "replacing", "writeBody", "writeHeaders", "invalidating",
             "clearing"}
Files    == {"body", "headers"}
Versions == 1 .. MaxVersion

NoFile == 0
NoTag  == 0
NoBody == 0
NoAnswer == [status |-> 0, version |-> 0]
NoHeaders == [version |-> NoFile, recent |-> FALSE, checked |-> 0]

\* What a headers file says: the response it came with, that its cache date is
\* within the timeout interval, and (history) the version that was current when
\* the server sent the answer which set that date.
HeadersFor(v) == [version |-> v, recent |-> TRUE, checked |-> v]

\* The headers file h after setCacheDate:, when the server has just said that v
\* is current.
Dated(h, v) == [version |-> h.version, recent |-> TRUE, checked |-> v]

Aged(h) == [version |-> h.version, recent |-> FALSE, checked |-> h.checked]

Idle == busy = "idle"

pathForRequest(r) == r \notin Deletes /\ storage # "disabled"

hasResponse(r) ==
    /\ pathForRequest(r)
    /\ body[Key[r]] # NoFile
    /\ headers[Key[r]].version # NoFile

\* etagForRequest: looks at the headers file alone.
etagForRequest(r) ==
    IF pathForRequest(r) /\ Key[r] \in Tagged
    THEN headers[Key[r]].version ELSE NoTag

shouldLoadFromCache(r) ==
    /\ hasResponse(r)
    /\ \/ "Enabled" \in Policy[r]
       \/ "Timeout" \in Policy[r] /\ headers[Key[r]].recent

-----------------------------------------------------------------------------
(* Sending, and the server.                                                *)

Init ==
    /\ storage \in Storages
    /\ body = [k \in Keys |-> NoFile] /\ headers = [k \in Keys |-> NoHeaders]
    /\ server = [k \in Keys |-> 1]
    /\ phase = [r \in Requests |-> "new"]
    /\ tag = [r \in Requests |-> NoTag]
    /\ answer = [r \in Requests |-> NoAnswer]
    /\ busy = "idle" /\ storing = {} /\ removing = {}
    /\ got = [r \in Requests |-> "nothing"]
    /\ shown = [k \in Keys |-> NoBody]
    /\ overlapped = FALSE /\ crashed = FALSE /\ writeFailed = FALSE

\* The requests in set end, and are released with their responses.
End(set, outcome) ==
    /\ phase' = [r \in Requests |-> IF r \in set THEN "ended" ELSE phase[r]]
    /\ tag' = [r \in Requests |-> IF r \in set THEN NoTag ELSE tag[r]]
    /\ answer' = [r \in Requests |-> IF r \in set THEN NoAnswer ELSE answer[r]]
    /\ got' = [r \in Requests |-> IF r \in set THEN outcome ELSE got[r]]

Fail(r) == End({r}, "failed") /\ UNCHANGED shown

\* The delegate receives a response with body v; a response without one counts
\* as a success all the same when it comes from the cache.
Deliver(r, v) ==
    /\ End({r}, IF v = NoBody THEN "hollow" ELSE "loaded")
    /\ shown' = IF v # NoBody /\ Policy[r] # {} /\ pathForRequest(r)
                THEN [shown EXCEPT ![Key[r]] = v] ELSE shown

\* sendAsynchronously, when the cache will do.
LoadFromCache(r) ==
    /\ Idle /\ phase[r] = "new"
    /\ shouldLoadFromCache(r)
    /\ Deliver(r, body[Key[r]])
    /\ UNCHANGED <<storage, fileVars, server, mainVars, historyVars>>

\* sendAsynchronously, when the network is needed and available.
Dispatch(r) ==
    /\ Idle /\ phase[r] = "new"
    /\ ~shouldLoadFromCache(r)
    /\ phase' = [phase EXCEPT ![r] = "wire"]
    /\ tag' = [tag EXCEPT ![r] =
                  IF "Etag" \in Policy[r] THEN etagForRequest(r) ELSE NoTag]
    /\ overlapped' = (overlapped \/ \E q \in Requests :
                         Key[q] = Key[r] /\ phase[q] \in {"wire", "answered"})
    /\ UNCHANGED <<storage, fileVars, server, answer, mainVars, got, shown,
                   crashed, writeFailed>>

\* sendAsynchronously, when the network is needed and not available: the request
\* fails, and didFailLoadWithError: looks at the cache once more.
RefuseOffline(r) ==
    /\ Idle /\ phase[r] = "new"
    /\ ~shouldLoadFromCache(r)
    /\ IF {"LoadIfOffline", "LoadOnError"} \cap Policy[r] # {} /\ hasResponse(r)
       THEN Deliver(r, body[Key[r]]) ELSE Fail(r)
    /\ UNCHANGED <<storage, fileVars, server, mainVars, historyVars>>

\* The server answers with what it has at that moment.
Reply(r) ==
    LET v == server[Key[r]] IN
    /\ phase[r] = "wire"
    /\ phase' = [phase EXCEPT ![r] = "answered"]
    /\ answer' = [answer EXCEPT ![r] =
                     [status |-> IF tag[r] = v THEN 304 ELSE 200, version |-> v]]
    /\ UNCHANGED <<storage, fileVars, server, tag, mainVars, got, shown, historyVars>>

Change(k) ==
    /\ server[k] < MaxVersion
    /\ server' = [server EXCEPT ![k] = @ + 1]
    /\ UNCHANGED <<storage, fileVars, requestVars, mainVars, got, shown, historyVars>>

\* The timeout interval of an entry passes.
GrowOld(k) ==
    /\ headers[k].recent
    /\ headers' = [headers EXCEPT ![k] = Aged(@)]
    /\ UNCHANGED <<storage, body, server, requestVars, mainVars, got, shown, historyVars>>

-----------------------------------------------------------------------------
(* didFinishLoad: and didFailLoadWithError:.                               *)

\* didFailLoadWithError:, when the connection fails.
ConnectionFails(r) ==
    /\ Idle /\ phase[r] \in {"wire", "answered"}
    /\ IF "LoadOnError" \in Policy[r] /\ hasResponse(r)
       THEN Deliver(r, body[Key[r]]) ELSE Fail(r)
    /\ UNCHANGED <<storage, fileVars, server, mainVars, historyVars>>

\* Faulty variant that takes an error for a 304 and dates the entry anew.
ErrorStatusDates(r) ==
    LET k == Key[r] IN
    /\ Idle /\ phase[r] = "wire"
    /\ Fail(r)
    /\ headers' = IF headers[k].version = NoFile THEN headers
                  ELSE [headers EXCEPT ![k] = Dated(@, server[k])]
    /\ UNCHANGED <<storage, body, server, mainVars, historyVars>>

\* A response that is no success passes the cache by.
ErrorStatus(r) ==
    /\ Idle /\ phase[r] = "wire"
    /\ Fail(r)
    /\ UNCHANGED <<storage, fileVars, server, mainVars, historyVars>>

\* didFinishLoad: of a 304: the entry is read, whatever is there, and its date
\* is set, if that write succeeds.  Without headers the delegate gets a response
\* that is neither a success nor from the cache.
NotModified(r, written) ==
    LET k == Key[r] IN
    /\ Idle /\ phase[r] = "answered" /\ answer[r].status = 304
    /\ IF pathForRequest(r) /\ headers[k].version # NoFile
       THEN /\ Deliver(r, body[k])
            /\ headers' = IF written
                          THEN [headers EXCEPT ![k] = Dated(@, answer[r].version)]
                          ELSE headers
            /\ writeFailed' = (writeFailed \/ ~written)
       ELSE /\ Fail(r)
            /\ UNCHANGED <<headers, writeFailed>>
    /\ UNCHANGED <<storage, body, server, mainVars, overlapped, crashed>>

\* Faulty variant that keeps the entry that is there.
StartStoreKeeps(r) ==
    /\ Idle /\ phase[r] = "answered" /\ answer[r].status = 200
    /\ Policy[r] # {} /\ pathForRequest(r)
    /\ IF hasResponse(r)
       THEN Deliver(r, answer[r].version) /\ UNCHANGED mainVars
       ELSE /\ storing' = {r} /\ busy' = "writeBody"
            /\ UNCHANGED <<removing, requestVars, got, shown>>
    /\ UNCHANGED <<storage, fileVars, server, historyVars>>

\* didFinishLoad: of a success: storeResponse: removes the entry that is there,
StartStore(r) ==
    /\ Idle /\ phase[r] = "answered" /\ answer[r].status = 200
    /\ Policy[r] # {} /\ pathForRequest(r)
    /\ storing' = {r}
    /\ busy' = IF hasResponse(r) THEN "replacing" ELSE "writeBody"
    /\ removing' = IF hasResponse(r) THEN Files \X {Key[r]} ELSE {}
    /\ UNCHANGED <<storage, fileVars, server, requestVars, got, shown, historyVars>>

\* Faulty variant that does not write over a body that is there.
WriteBodyOnce(r, written) ==
    /\ busy = "writeBody" /\ r \in storing
    /\ body' = IF written /\ body[Key[r]] = NoFile
               THEN [body EXCEPT ![Key[r]] = answer[r].version] ELSE body
    /\ writeFailed' = (writeFailed \/ ~written)
    /\ busy' = "writeHeaders"
    /\ UNCHANGED <<storage, headers, server, requestVars, storing, removing, got,
                   shown, overlapped, crashed>>

\* writes the body,
WriteBody(r, written) ==
    /\ busy = "writeBody" /\ r \in storing
    /\ body' = IF written THEN [body EXCEPT ![Key[r]] = answer[r].version] ELSE body
    /\ writeFailed' = (writeFailed \/ ~written)
    /\ busy' = "writeHeaders"
    /\ UNCHANGED <<storage, headers, server, requestVars, storing, removing, got,
                   shown, overlapped, crashed>>

\* Faulty variant that writes no headers.
SkipHeaders(r, written) ==
    /\ busy = "writeHeaders" /\ r \in storing
    /\ busy' = "idle" /\ storing' = {}
    /\ Deliver(r, answer[r].version)
    /\ UNCHANGED <<storage, fileVars, server, removing, historyVars>>

\* and the headers, whatever became of the body.
WriteHeaders(r, written) ==
    /\ busy = "writeHeaders" /\ r \in storing
    /\ headers' = IF written
                  THEN [headers EXCEPT ![Key[r]] = HeadersFor(answer[r].version)]
                  ELSE headers
    /\ writeFailed' = (writeFailed \/ ~written)
    /\ busy' = "idle" /\ storing' = {}
    /\ Deliver(r, answer[r].version)
    /\ UNCHANGED <<storage, body, server, removing, overlapped, crashed>>

\* didFinishLoad: of a success that is not to be cached.
PassBy(r) ==
    /\ Idle /\ phase[r] = "answered" /\ answer[r].status = 200
    /\ Policy[r] = {} \/ ~pathForRequest(r)
    /\ Deliver(r, answer[r].version)
    /\ UNCHANGED <<storage, fileVars, server, mainVars, historyVars>>

-----------------------------------------------------------------------------
(* Removing entries, dying and starting again.                             *)

\* Faulty variant that forgets the headers.
BodyOf(k) == IF body[k] # NoFile THEN {<<"body", k>>} ELSE {}

FilesOf(k) ==
    {<<f, k>> : f \in {g \in Files :
        \/ g = "body" /\ body[k] # NoFile
        \/ g = "headers" /\ headers[k].version # NoFile}}

\* invalidateRequest:, for a request with key k.
Invalidate(k) ==
    /\ Idle
    /\ FilesOf(k) # {}
    /\ busy' = "invalidating"
    /\ removing' = FilesOf(k)
    /\ UNCHANGED <<storage, fileVars, server, requestVars, storing, got, shown, historyVars>>

\* Faulty variant that returns once the old entry is gone.
NoNextStage == "idle"

\* What follows the removal of the last file.
NextStage == IF busy = "replacing" THEN "writeBody" ELSE "idle"

\* Of one entry the body is removed first; clearing a whole directory follows
\* its listing.
RemoveFile(f, k) ==
    /\ <<f, k>> \in removing
    /\ f = "headers" /\ busy # "clearing" => <<"body", k>> \notin removing
    /\ removing' = removing \ {<<f, k>>}
    /\ body' = IF f = "body" THEN [body EXCEPT ![k] = NoFile] ELSE body
    /\ headers' = IF f = "headers" THEN [headers EXCEPT ![k] = NoHeaders] ELSE headers
    /\ busy' = IF removing' = {} THEN NextStage ELSE busy
    /\ UNCHANGED <<storage, server, requestVars, storing, got, shown, historyVars>>

\* The process is killed.  The next one opens the cache with the same storage
\* policy, and setStoragePolicy: clears what was kept for a session.
Restart ==
    LET lost == {r \in Requests : phase[r] \in {"wire", "answered"}}
        kept == IF storage = "session" THEN UNION {FilesOf(k) : k \in Keys} ELSE {} IN
    /\ ~Idle \/ lost # {}
    /\ crashed' = (crashed \/ ~Idle)
    /\ End(lost, "failed")
    /\ removing' = kept
    /\ busy' = IF kept = {} THEN "idle" ELSE "clearing"
    /\ storing' = {}
    /\ UNCHANGED <<storage, fileVars, server, shown, overlapped, writeFailed>>

-----------------------------------------------------------------------------
Next ==
    \/ \E r \in Requests :
          \/ LoadFromCache(r) \/ Dispatch(r) \/ RefuseOffline(r)
          \/ Reply(r) \/ ConnectionFails(r) \/ ErrorStatus(r)
          \/ StartStore(r) \/ PassBy(r)
          \/ \E written \in BOOLEAN :
                NotModified(r, written) \/ WriteBody(r, written)
                    \/ WriteHeaders(r, written)
    \/ \E k \in Keys :
          \/ Change(k) \/ GrowOld(k) \/ Invalidate(k)
          \/ \E f \in Files : RemoveFile(f, k)
    \/ Restart

Spec == Init /\ [][Next]_vars

-----------------------------------------------------------------------------
(* Properties.                                                             *)

\* Types; the main thread removes files or writes them, one response at a time.
TypeOK ==
    /\ storage \in Storages
    /\ body \in [Keys -> 0 .. MaxVersion]
    /\ headers \in [Keys -> [version : 0 .. MaxVersion, recent : BOOLEAN,
                             checked : 0 .. MaxVersion]]
    /\ server \in [Keys -> Versions]
    /\ phase \in [Requests -> Phases]
    /\ tag \in [Requests -> 0 .. MaxVersion]
    /\ answer \in [Requests -> [status : {0, 200, 304}, version : 0 .. MaxVersion]]
    /\ busy \in Stages
    /\ storing \subseteq Requests
    /\ removing \subseteq Files \X Keys
    /\ removing # {} <=> busy \in {"replacing", "invalidating", "clearing"}
    /\ storing # {} <=> busy \in {"replacing", "writeBody", "writeHeaders"}
    /\ got \in [Requests -> {"nothing", "loaded", "hollow", "failed"}]
    /\ shown \in [Keys -> 0 .. MaxVersion]
    /\ overlapped \in BOOLEAN /\ crashed \in BOOLEAN /\ writeFailed \in BOOLEAN

\* Unless the process died inside a handler or a write failed, an entry
\* is both files of one response or none, however answers overtook each other.
EntryWhole ==
    Idle /\ ~crashed /\ ~writeFailed =>
        \A k \in Keys : body[k] = headers[k].version

\* The cache date vouches for the body: what the timeout policy serves is at
\* least as new as what the server had when it sent the answer that set the
\* date.  This survives a death between any two steps; it does not survive
\* a failed write or two overlapping requests for the resource.
DateIsHonest ==
    ~overlapped /\ ~writeFailed =>
        \A k \in Keys : body[k] # NoFile /\ headers[k].version # NoFile =>
            body[k] >= headers[k].checked

\* Under the same conditions the application never sees a resource go back to
\* an older version.
MonotoneReads ==
    [][~overlapped /\ ~writeFailed' =>
          \A k \in Keys : shown'[k] >= shown[k]]_vars

\* RKRequest.h:55, for the body that a 304 delivers.  The tag is read from the
\* headers file when the request is sent and the body is read when the answer is
\* there, after whatever deaths and removals lay between: without overlapping
\* requests and failed writes the body is the version the server vouched for.
RevalidatedIsCurrent ==
    [][\A r \in Requests :
          /\ ~overlapped /\ ~writeFailed
          /\ answer[r].status = 304
          /\ got[r] = "nothing" /\ got'[r] = "loaded"
          => shown'[Key[r]] = answer[r].version]_vars

\* RKRequest.h:55, "Load from the cache if we have data stored and the server
\* returns a 304 (not modified) response": a success without a body is
\* delivered only if the process once died inside a handler or a write failed.
HollowOnlyAfterFault ==
    (\E r \in Requests : got[r] = "hollow") => crashed \/ writeFailed
=============================================================================
