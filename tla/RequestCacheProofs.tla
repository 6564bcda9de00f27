------------------------- MODULE RequestCacheProofs -------------------------
(***************************************************************************)
(* Theorems about RequestCache, for any requests, keys and policies and    *)
(* any number of versions.                                                 *)
(***************************************************************************)
EXTENDS RequestCache, TLAPS

-----------------------------------------------------------------------------
(* Where the main thread stands.                                           *)

\* What it stores is a success that was answered and may be cached.
StoringFacts ==
    /\ \A r \in storing :
          /\ phase[r] = "answered" /\ answer[r].status = 200
          /\ pathForRequest(r) /\ Policy[r] # {}
    /\ \A q, r \in storing : q = r

\* A response, and only a response, has a version, and only a request with the
\* entity tag policy sends a tag.
AnswerFacts ==
    \A r \in Requests :
        /\ phase[r] = "answered" => answer[r].version \in Versions
        /\ phase[r] = "answered" /\ answer[r].status = 304 => answer[r].version = tag[r]
        /\ phase[r] = "new" => tag[r] = NoTag
        /\ phase[r] # "answered" => answer[r] = NoAnswer
        /\ tag[r] # NoTag => pathForRequest(r) /\ "Etag" \in Policy[r]

BaseInv == TypeOK /\ StoringFacts /\ AnswerFacts


\* What a request that ends leaves has its type.
LEMMA EndTypes ==
    ASSUME TypeOK, NEW r \in Requests, NEW v \in 0 .. MaxVersion,
           Deliver(r, v) \/ Fail(r)
    PROVE  /\ phase' \in [Requests -> Phases]
           /\ tag' \in [Requests -> 0 .. MaxVersion]
           /\ answer' \in [Requests -> [status : {0, 200, 304},
                                       version : 0 .. MaxVersion]]
           /\ got' \in [Requests -> {"nothing", "loaded", "hollow", "failed"}]
           /\ shown' \in [Keys -> 0 .. MaxVersion]
<1>1. shown' \in [Keys -> 0 .. MaxVersion]
  BY CacheAssumption DEF TypeOK, Deliver, Fail
<1>2. PICK o \in {"loaded", "hollow", "failed"} : End({r}, o)
  BY DEF Deliver, Fail
<1> QED
  BY <1>1, <1>2, CacheAssumption DEF TypeOK, End, Phases, NoTag, NoAnswer

\* Setting or forgetting the date of a headers file leaves a headers file.
LEMMA DateTypes ==
    ASSUME TypeOK, NEW k \in Keys, NEW v \in 0 .. MaxVersion
    PROVE  /\ [headers EXCEPT ![k] = Dated(@, v)] \in
                 [Keys -> [version : 0 .. MaxVersion, recent : BOOLEAN,
                           checked : 0 .. MaxVersion]]
           /\ [headers EXCEPT ![k] = Aged(@)] \in
                 [Keys -> [version : 0 .. MaxVersion, recent : BOOLEAN,
                           checked : 0 .. MaxVersion]]
<1>1. headers[k] \in [version : 0 .. MaxVersion, recent : BOOLEAN,
                      checked : 0 .. MaxVersion]
  BY DEF TypeOK
<1>2. /\ Dated(headers[k], v) \in [version : 0 .. MaxVersion, recent : BOOLEAN,
                                   checked : 0 .. MaxVersion]
      /\ Aged(headers[k]) \in [version : 0 .. MaxVersion, recent : BOOLEAN,
                               checked : 0 .. MaxVersion]
  BY <1>1 DEF Dated, Aged
<1> QED
  BY <1>2 DEF TypeOK

LEMMA TypeStep ==
    ASSUME BaseInv, [Next]_vars
    PROVE  TypeOK'
<1> USE CacheAssumption DEF vars, fileVars, requestVars, mainVars, historyVars
<1>1. ASSUME NEW r \in Requests, LoadFromCache(r) PROVE TypeOK'
  <2>1. body[Key[r]] \in 0 .. MaxVersion
    BY DEF BaseInv, TypeOK
  <2>2. Deliver(r, body[Key[r]]) \/ Fail(r)
    BY <1>1 DEF LoadFromCache
  <2> QED
    BY <1>1, <2>1, <2>2, EndTypes DEF LoadFromCache, BaseInv, TypeOK, Stages
<1>2. ASSUME NEW r \in Requests, Dispatch(r) PROVE TypeOK'
  BY <1>2 DEF Dispatch, Idle, etagForRequest, BaseInv, StoringFacts,
    AnswerFacts, NoTag, NoAnswer, NoBody, NoFile, TypeOK, Stages, Phases,
    Storages, Versions, Files
<1>3. ASSUME NEW r \in Requests, RefuseOffline(r) PROVE TypeOK'
  <2>1. body[Key[r]] \in 0 .. MaxVersion
    BY DEF BaseInv, TypeOK
  <2>2. Deliver(r, body[Key[r]]) \/ Fail(r)
    BY <1>3 DEF RefuseOffline
  <2> QED
    BY <1>3, <2>1, <2>2, EndTypes DEF RefuseOffline, BaseInv, TypeOK, Stages
<1>4. ASSUME NEW r \in Requests, Reply(r) PROVE TypeOK'
  BY <1>4 DEF Reply, BaseInv, StoringFacts, AnswerFacts, NoTag, NoAnswer,
    NoBody, NoFile, TypeOK, Stages, Phases, Storages, Versions, Files
<1>5. ASSUME NEW r \in Requests, ConnectionFails(r) PROVE TypeOK'
  <2>1. body[Key[r]] \in 0 .. MaxVersion
    BY DEF BaseInv, TypeOK
  <2>2. Deliver(r, body[Key[r]]) \/ Fail(r)
    BY <1>5 DEF ConnectionFails
  <2> QED
    BY <1>5, <2>1, <2>2, EndTypes DEF ConnectionFails, BaseInv, TypeOK, Stages
<1>6. ASSUME NEW r \in Requests, ErrorStatus(r) PROVE TypeOK'
  <2>1. body[Key[r]] \in 0 .. MaxVersion
    BY DEF BaseInv, TypeOK
  <2>2. Deliver(r, body[Key[r]]) \/ Fail(r)
    BY <1>6 DEF ErrorStatus
  <2> QED
    BY <1>6, <2>1, <2>2, EndTypes DEF ErrorStatus, BaseInv, TypeOK, Stages
<1>7. ASSUME NEW r \in Requests, StartStore(r) PROVE TypeOK'
  <2>1. Files \X {Key[r]} \subseteq Files \X Keys
    BY DEF Files
  <2>2. Files \X {Key[r]} # {}
    <3>1. <<"body", Key[r]>> \in Files \X {Key[r]}
      BY DEF Files
    <3> QED BY <3>1
  <2> QED
    BY <1>7, <2>1, <2>2 DEF StartStore, Idle, BaseInv, TypeOK, Stages
<1>8. ASSUME NEW r \in Requests, PassBy(r) PROVE TypeOK'
  <2>1. answer[r].version \in 0 .. MaxVersion
    BY DEF BaseInv, TypeOK
  <2>2. Deliver(r, answer[r].version) \/ Fail(r)
    BY <1>8 DEF PassBy
  <2> QED
    BY <1>8, <2>1, <2>2, EndTypes DEF PassBy, BaseInv, TypeOK, Stages
<1>9. ASSUME NEW r \in Requests, NEW written \in BOOLEAN, NotModified(r,
  written) PROVE TypeOK'
  <2>1. body[Key[r]] \in 0 .. MaxVersion /\ answer[r].version \in 0 ..
    MaxVersion
    BY DEF BaseInv, TypeOK
  <2>2. Deliver(r, body[Key[r]]) \/ Fail(r)
    BY <1>9 DEF NotModified
  <2>3. headers' \in [Keys -> [version : 0 .. MaxVersion, recent : BOOLEAN,
                              checked : 0 .. MaxVersion]]
    <3> DEFINE d == [headers EXCEPT ![Key[r]] = Dated(@, answer[r].version)]
    <3>1. headers' = d \/ headers' = headers
      BY <1>9 DEF NotModified
    <3>2. Key[r] \in Keys
      OBVIOUS
    <3>3. d \in [Keys -> [version : 0 .. MaxVersion, recent : BOOLEAN,
                         checked : 0 .. MaxVersion]]
      BY <2>1, <3>2, DateTypes DEF BaseInv
    <3> QED BY <3>1, <3>3 DEF BaseInv, TypeOK
  <2>4. writeFailed' \in BOOLEAN
    BY <1>9 DEF NotModified, BaseInv, TypeOK
  <2> QED
    BY <1>9, <2>1, <2>2, <2>3, <2>4, EndTypes
       DEF NotModified, BaseInv, TypeOK, Stages
<1>10. ASSUME NEW r \in Requests, NEW written \in BOOLEAN, WriteBody(r,
  written) PROVE TypeOK'
  BY <1>10 DEF WriteBody, BaseInv, StoringFacts, AnswerFacts, NoTag, NoAnswer,
    NoBody, NoFile, TypeOK, Stages, Phases, Storages, Versions, Files
<1>11. ASSUME NEW r \in Requests, NEW written \in BOOLEAN, WriteHeaders(r,
  written) PROVE TypeOK'
  BY <1>11 DEF WriteHeaders, Deliver, End, HeadersFor, BaseInv, StoringFacts,
    AnswerFacts, NoTag, NoAnswer, NoBody, NoFile, TypeOK, Stages, Phases,
    Storages, Versions, Files
<1>12. ASSUME NEW k \in Keys, Change(k) PROVE TypeOK'
  BY <1>12 DEF Change, BaseInv, StoringFacts, AnswerFacts, NoTag, NoAnswer,
    NoBody, NoFile, TypeOK, Stages, Phases, Storages, Versions, Files
<1>13. ASSUME NEW k \in Keys, GrowOld(k) PROVE TypeOK'
  <2>1. 0 \in 0 .. MaxVersion
    OBVIOUS
  <2> QED BY <1>13, <2>1, DateTypes DEF GrowOld, BaseInv, TypeOK
<1>14. ASSUME NEW k \in Keys, Invalidate(k) PROVE TypeOK'
  BY <1>14 DEF Invalidate, Idle, FilesOf, BaseInv, StoringFacts, AnswerFacts,
    NoTag, NoAnswer, NoBody, NoFile, TypeOK, Stages, Phases, Storages,
    Versions, Files
<1>15. ASSUME NEW f \in Files, NEW k \in Keys, RemoveFile(f, k) PROVE TypeOK'
  BY <1>15 DEF RemoveFile, NextStage, NoHeaders, BaseInv, StoringFacts,
    AnswerFacts, NoTag, NoAnswer, NoBody, NoFile, TypeOK, Stages, Phases,
    Storages, Versions, Files
<1>16. CASE Restart
  BY <1>16 DEF Restart, Idle, End, FilesOf, BaseInv, StoringFacts, AnswerFacts,
    NoTag, NoAnswer, NoBody, NoFile, TypeOK, Stages, Phases, Storages,
    Versions, Files
<1>17. CASE UNCHANGED vars
  BY <1>17 DEF BaseInv, StoringFacts, AnswerFacts, NoTag, NoAnswer, NoBody,
    NoFile, TypeOK, Stages, Phases, Storages, Versions, Files
<1> QED
  BY <1>1, <1>2, <1>3, <1>4, <1>5, <1>6, <1>7, <1>8, <1>9, <1>10, <1>11, <1>12,
    <1>13, <1>14, <1>15, <1>16, <1>17 DEF Next

LEMMA StoringStep ==
    ASSUME BaseInv, [Next]_vars
    PROVE  StoringFacts'
<1> USE CacheAssumption DEF vars, fileVars, requestVars, mainVars, historyVars
<1>1. ASSUME NEW r \in Requests, LoadFromCache(r) PROVE StoringFacts'
  BY <1>1 DEF LoadFromCache, Idle, shouldLoadFromCache, hasResponse, Deliver,
    End, BaseInv, StoringFacts, pathForRequest, TypeOK, Stages, Phases,
    Storages, Versions, Files
<1>2. ASSUME NEW r \in Requests, Dispatch(r) PROVE StoringFacts'
  BY <1>2 DEF Dispatch, Idle, etagForRequest, BaseInv, StoringFacts,
    pathForRequest, TypeOK, Stages, Phases, Storages, Versions, Files
<1>3. ASSUME NEW r \in Requests, RefuseOffline(r) PROVE StoringFacts'
  BY <1>3 DEF RefuseOffline, Idle, hasResponse, Deliver, End, Fail, BaseInv,
    StoringFacts, pathForRequest, TypeOK, Stages, Phases, Storages, Versions,
    Files
<1>4. ASSUME NEW r \in Requests, Reply(r) PROVE StoringFacts'
  BY <1>4 DEF Reply, BaseInv, StoringFacts, pathForRequest, TypeOK, Stages,
    Phases, Storages, Versions, Files
<1>5. ASSUME NEW r \in Requests, ConnectionFails(r) PROVE StoringFacts'
  BY <1>5 DEF ConnectionFails, Idle, hasResponse, Deliver, End, Fail, BaseInv,
    StoringFacts, pathForRequest, TypeOK, Stages, Phases, Storages, Versions,
    Files
<1>6. ASSUME NEW r \in Requests, ErrorStatus(r) PROVE StoringFacts'
  BY <1>6 DEF ErrorStatus, Idle, Fail, End, BaseInv, StoringFacts,
    pathForRequest, TypeOK, Stages, Phases, Storages, Versions, Files
<1>7. ASSUME NEW r \in Requests, StartStore(r) PROVE StoringFacts'
  BY <1>7 DEF StartStore, Idle, hasResponse, BaseInv, StoringFacts,
    pathForRequest, TypeOK, Stages, Phases, Storages, Versions, Files
<1>8. ASSUME NEW r \in Requests, PassBy(r) PROVE StoringFacts'
  BY <1>8 DEF PassBy, Idle, Deliver, End, BaseInv, StoringFacts,
    pathForRequest, TypeOK, Stages, Phases, Storages, Versions, Files
<1>9. ASSUME NEW r \in Requests, NEW written \in BOOLEAN, NotModified(r,
  written) PROVE StoringFacts'
  BY <1>9 DEF NotModified, Idle, Deliver, End, Fail, BaseInv, StoringFacts,
    pathForRequest, TypeOK, Stages, Phases, Storages, Versions, Files
<1>10. ASSUME NEW r \in Requests, NEW written \in BOOLEAN, WriteBody(r,
  written) PROVE StoringFacts'
  BY <1>10 DEF WriteBody, BaseInv, StoringFacts, pathForRequest, TypeOK,
    Stages, Phases, Storages, Versions, Files
<1>11. ASSUME NEW r \in Requests, NEW written \in BOOLEAN, WriteHeaders(r,
  written) PROVE StoringFacts'
  BY <1>11 DEF WriteHeaders, Deliver, End, HeadersFor, BaseInv, StoringFacts,
    pathForRequest, TypeOK, Stages, Phases, Storages, Versions, Files
<1>12. ASSUME NEW k \in Keys, Change(k) PROVE StoringFacts'
  BY <1>12 DEF Change, BaseInv, StoringFacts, pathForRequest, TypeOK, Stages,
    Phases, Storages, Versions, Files
<1>13. ASSUME NEW k \in Keys, GrowOld(k) PROVE StoringFacts'
  BY <1>13 DEF GrowOld, BaseInv, StoringFacts, pathForRequest, TypeOK, Stages,
    Phases, Storages, Versions, Files
<1>14. ASSUME NEW k \in Keys, Invalidate(k) PROVE StoringFacts'
  BY <1>14 DEF Invalidate, Idle, FilesOf, BaseInv, StoringFacts,
    pathForRequest, TypeOK, Stages, Phases, Storages, Versions, Files
<1>15. ASSUME NEW f \in Files, NEW k \in Keys, RemoveFile(f, k) PROVE
  StoringFacts'
  BY <1>15 DEF RemoveFile, NextStage, NoHeaders, BaseInv, StoringFacts,
    pathForRequest, TypeOK, Stages, Phases, Storages, Versions, Files
<1>16. CASE Restart
  BY <1>16 DEF Restart, Idle, End, FilesOf, BaseInv, StoringFacts,
    pathForRequest, TypeOK, Stages, Phases, Storages, Versions, Files
<1>17. CASE UNCHANGED vars
  BY <1>17 DEF BaseInv, StoringFacts, pathForRequest, TypeOK, Stages, Phases,
    Storages, Versions, Files
<1> QED
  BY <1>1, <1>2, <1>3, <1>4, <1>5, <1>6, <1>7, <1>8, <1>9, <1>10, <1>11, <1>12,
    <1>13, <1>14, <1>15, <1>16, <1>17 DEF Next

LEMMA AnswerStep ==
    ASSUME BaseInv, [Next]_vars
    PROVE  AnswerFacts'
<1> USE CacheAssumption DEF vars, fileVars, requestVars, mainVars, historyVars
<1>1. ASSUME NEW r \in Requests, LoadFromCache(r) PROVE AnswerFacts'
  BY <1>1 DEF LoadFromCache, Idle, shouldLoadFromCache, hasResponse, Deliver,
    End, BaseInv, AnswerFacts, pathForRequest, NoTag, NoAnswer, TypeOK, Stages,
    Phases, Storages, Versions, Files
<1>2. ASSUME NEW r \in Requests, Dispatch(r) PROVE AnswerFacts'
  BY <1>2 DEF Dispatch, Idle, etagForRequest, BaseInv, AnswerFacts,
    pathForRequest, NoTag, NoAnswer, TypeOK, Stages, Phases, Storages,
    Versions, Files
<1>3. ASSUME NEW r \in Requests, RefuseOffline(r) PROVE AnswerFacts'
  BY <1>3 DEF RefuseOffline, Idle, hasResponse, Deliver, End, Fail, BaseInv,
    AnswerFacts, pathForRequest, NoTag, NoAnswer, TypeOK, Stages, Phases,
    Storages, Versions, Files
<1>4. ASSUME NEW r \in Requests, Reply(r) PROVE AnswerFacts'
  BY <1>4 DEF Reply, BaseInv, AnswerFacts, pathForRequest, NoTag, NoAnswer,
    TypeOK, Stages, Phases, Storages, Versions, Files
<1>5. ASSUME NEW r \in Requests, ConnectionFails(r) PROVE AnswerFacts'
  BY <1>5 DEF ConnectionFails, Idle, hasResponse, Deliver, End, Fail, BaseInv,
    AnswerFacts, pathForRequest, NoTag, NoAnswer, TypeOK, Stages, Phases,
    Storages, Versions, Files
<1>6. ASSUME NEW r \in Requests, ErrorStatus(r) PROVE AnswerFacts'
  BY <1>6 DEF ErrorStatus, Idle, Fail, End, BaseInv, AnswerFacts,
    pathForRequest, NoTag, NoAnswer, TypeOK, Stages, Phases, Storages,
    Versions, Files
<1>7. ASSUME NEW r \in Requests, StartStore(r) PROVE AnswerFacts'
  BY <1>7 DEF StartStore, Idle, hasResponse, BaseInv, AnswerFacts,
    pathForRequest, NoTag, NoAnswer, TypeOK, Stages, Phases, Storages,
    Versions, Files
<1>8. ASSUME NEW r \in Requests, PassBy(r) PROVE AnswerFacts'
  BY <1>8 DEF PassBy, Idle, Deliver, End, BaseInv, AnswerFacts, pathForRequest,
    NoTag, NoAnswer, TypeOK, Stages, Phases, Storages, Versions, Files
<1>9. ASSUME NEW r \in Requests, NEW written \in BOOLEAN, NotModified(r,
  written) PROVE AnswerFacts'
  BY <1>9 DEF NotModified, Idle, Deliver, End, Fail, BaseInv, AnswerFacts,
    pathForRequest, NoTag, NoAnswer, TypeOK, Stages, Phases, Storages,
    Versions, Files
<1>10. ASSUME NEW r \in Requests, NEW written \in BOOLEAN, WriteBody(r,
  written) PROVE AnswerFacts'
  BY <1>10 DEF WriteBody, BaseInv, AnswerFacts, pathForRequest, NoTag,
    NoAnswer, TypeOK, Stages, Phases, Storages, Versions, Files
<1>11. ASSUME NEW r \in Requests, NEW written \in BOOLEAN, WriteHeaders(r,
  written) PROVE AnswerFacts'
  BY <1>11 DEF WriteHeaders, Deliver, End, HeadersFor, BaseInv, AnswerFacts,
    pathForRequest, NoTag, NoAnswer, TypeOK, Stages, Phases, Storages,
    Versions, Files
<1>12. ASSUME NEW k \in Keys, Change(k) PROVE AnswerFacts'
  BY <1>12 DEF Change, BaseInv, AnswerFacts, pathForRequest, NoTag, NoAnswer,
    TypeOK, Stages, Phases, Storages, Versions, Files
<1>13. ASSUME NEW k \in Keys, GrowOld(k) PROVE AnswerFacts'
  BY <1>13 DEF GrowOld, BaseInv, AnswerFacts, pathForRequest, NoTag, NoAnswer,
    TypeOK, Stages, Phases, Storages, Versions, Files
<1>14. ASSUME NEW k \in Keys, Invalidate(k) PROVE AnswerFacts'
  BY <1>14 DEF Invalidate, Idle, FilesOf, BaseInv, AnswerFacts, pathForRequest,
    NoTag, NoAnswer, TypeOK, Stages, Phases, Storages, Versions, Files
<1>15. ASSUME NEW f \in Files, NEW k \in Keys, RemoveFile(f, k) PROVE
  AnswerFacts'
  BY <1>15 DEF RemoveFile, NextStage, NoHeaders, BaseInv, AnswerFacts,
    pathForRequest, NoTag, NoAnswer, TypeOK, Stages, Phases, Storages,
    Versions, Files
<1>16. CASE Restart
  BY <1>16 DEF Restart, Idle, End, FilesOf, BaseInv, AnswerFacts,
    pathForRequest, NoTag, NoAnswer, TypeOK, Stages, Phases, Storages,
    Versions, Files
<1>17. CASE UNCHANGED vars
  BY <1>17 DEF BaseInv, AnswerFacts, pathForRequest, NoTag, NoAnswer, TypeOK,
    Stages, Phases, Storages, Versions, Files
<1> QED
  BY <1>1, <1>2, <1>3, <1>4, <1>5, <1>6, <1>7, <1>8, <1>9, <1>10, <1>11, <1>12,
    <1>13, <1>14, <1>15, <1>16, <1>17 DEF Next

LEMMA BaseInit == Init => BaseInv
<1> SUFFICES ASSUME Init PROVE BaseInv
  OBVIOUS
<1>1. TypeOK
  <2>1. NoHeaders \in [version : 0 .. MaxVersion, recent : BOOLEAN,
                       checked : 0 .. MaxVersion]
    BY CacheAssumption DEF NoHeaders, NoFile
  <2>2. headers \in [Keys -> [version : 0 .. MaxVersion, recent : BOOLEAN,
                            checked : 0 .. MaxVersion]]
    BY <2>1 DEF Init
  <2>3. NoAnswer \in [status : {0, 200, 304}, version : 0 .. MaxVersion]
    BY CacheAssumption DEF NoAnswer
  <2>4. answer \in [Requests -> [status : {0, 200, 304},
                                version : 0 .. MaxVersion]]
    BY <2>3 DEF Init
  <2>5. 0 \in 0 .. MaxVersion /\ 1 \in 1 .. MaxVersion
    BY CacheAssumption
  <2>6. /\ body \in [Keys -> 0 .. MaxVersion] /\ shown \in [Keys -> 0 .. MaxVersion]
        /\ server \in [Keys -> Versions] /\ tag \in [Requests -> 0 .. MaxVersion]
        /\ phase \in [Requests -> Phases]
        /\ got \in [Requests -> {"nothing", "loaded", "hollow", "failed"}]
    BY <2>5 DEF Init, Phases, Versions, NoFile, NoTag, NoBody
  <2> QED
    BY <2>2, <2>4, <2>6 DEF Init, TypeOK, Stages
<1>2. StoringFacts /\ AnswerFacts
  BY DEF Init, StoringFacts, AnswerFacts
<1> QED
  BY <1>1, <1>2 DEF BaseInv

LEMMA BaseStep == BaseInv /\ [Next]_vars => BaseInv'
BY TypeStep, StoringStep, AnswerStep DEF BaseInv


\* What ages is the date alone.
LEMMA AgeFacts ==
    ASSUME TypeOK, NEW k \in Keys, GrowOld(k), NEW j \in Keys
    PROVE  /\ headers'[j].version = headers[j].version
           /\ headers'[j].checked = headers[j].checked
           /\ UNCHANGED <<storage, body, server, requestVars, mainVars, got,
                          shown, historyVars>>
BY DEF TypeOK, GrowOld, Aged


-----------------------------------------------------------------------------
(* Entries are whole.                                                      *)

InRemoval(k) == \E f \in Files : <<f, k>> \in removing

\* A file that is not to be removed with the other one of its entry is gone.
RemovalFacts ==
    \A k \in Keys : InRemoval(k) =>
        /\ <<"body", k>> \notin removing => body[k] = NoFile
        /\ <<"headers", k>> \notin removing => headers[k].version = NoFile

\* The body has been written, and only the entry at hand is not whole.
WholeFacts ==
    /\ \A k \in Keys : \/ body[k] = headers[k].version
                       \/ InRemoval(k)
                       \/ \E r \in storing : Key[r] = k
    /\ busy = "writeHeaders" =>
          \A r \in storing : body[Key[r]] = answer[r].version

WholeInv ==
    /\ BaseInv /\ HollowOnlyAfterFault
    /\ ~crashed /\ ~writeFailed => RemovalFacts /\ WholeFacts


LEMMA RemovalStep ==
    ASSUME WholeInv, ~crashed, ~writeFailed, ~crashed', ~writeFailed',
      [Next]_vars
    PROVE  RemovalFacts'
<1> USE CacheAssumption DEF vars, fileVars, requestVars, mainVars, historyVars
<1>1. ASSUME NEW r \in Requests, LoadFromCache(r) PROVE RemovalFacts'
  BY <1>1 DEF LoadFromCache, Idle, shouldLoadFromCache, hasResponse, Deliver,
    End, WholeInv, BaseInv, RemovalFacts, InRemoval, TypeOK, Stages, Phases,
    Storages, Versions, Files
<1>2. ASSUME NEW r \in Requests, Dispatch(r) PROVE RemovalFacts'
  BY <1>2 DEF Dispatch, Idle, etagForRequest, WholeInv, BaseInv, RemovalFacts,
    InRemoval, TypeOK, Stages, Phases, Storages, Versions, Files
<1>3. ASSUME NEW r \in Requests, RefuseOffline(r) PROVE RemovalFacts'
  BY <1>3 DEF RefuseOffline, Idle, hasResponse, Deliver, End, Fail, WholeInv,
    BaseInv, RemovalFacts, InRemoval, TypeOK, Stages, Phases, Storages,
    Versions, Files
<1>4. ASSUME NEW r \in Requests, Reply(r) PROVE RemovalFacts'
  BY <1>4 DEF Reply, WholeInv, BaseInv, RemovalFacts, InRemoval, TypeOK,
    Stages, Phases, Storages, Versions, Files
<1>5. ASSUME NEW r \in Requests, ConnectionFails(r) PROVE RemovalFacts'
  BY <1>5 DEF ConnectionFails, Idle, hasResponse, Deliver, End, Fail, WholeInv,
    BaseInv, RemovalFacts, InRemoval, TypeOK, Stages, Phases, Storages,
    Versions, Files
<1>6. ASSUME NEW r \in Requests, ErrorStatus(r) PROVE RemovalFacts'
  BY <1>6 DEF ErrorStatus, Idle, Fail, End, WholeInv, BaseInv, RemovalFacts,
    InRemoval, TypeOK, Stages, Phases, Storages, Versions, Files
<1>7. ASSUME NEW r \in Requests, StartStore(r) PROVE RemovalFacts'
  BY <1>7 DEF StartStore, Idle, hasResponse, WholeInv, BaseInv, RemovalFacts,
    InRemoval, TypeOK, Stages, Phases, Storages, Versions, Files
<1>8. ASSUME NEW r \in Requests, PassBy(r) PROVE RemovalFacts'
  BY <1>8 DEF PassBy, Idle, Deliver, End, WholeInv, BaseInv, RemovalFacts,
    InRemoval, TypeOK, Stages, Phases, Storages, Versions, Files
<1>9. ASSUME NEW r \in Requests, NEW written \in BOOLEAN, NotModified(r,
  written) PROVE RemovalFacts'
  BY <1>9 DEF NotModified, Idle, Deliver, End, Fail, Dated, WholeInv, BaseInv,
    RemovalFacts, InRemoval, TypeOK, Stages, Phases, Storages, Versions, Files
<1>10. ASSUME NEW r \in Requests, NEW written \in BOOLEAN, WriteBody(r,
  written) PROVE RemovalFacts'
  BY <1>10 DEF WriteBody, WholeInv, BaseInv, RemovalFacts, InRemoval, TypeOK,
    Stages, Phases, Storages, Versions, Files
<1>11. ASSUME NEW r \in Requests, NEW written \in BOOLEAN, WriteHeaders(r,
  written) PROVE RemovalFacts'
  BY <1>11 DEF WriteHeaders, Deliver, End, HeadersFor, WholeInv, BaseInv,
    RemovalFacts, InRemoval, TypeOK, Stages, Phases, Storages, Versions, Files
<1>12. ASSUME NEW k \in Keys, Change(k) PROVE RemovalFacts'
  BY <1>12 DEF Change, WholeInv, BaseInv, RemovalFacts, InRemoval, TypeOK,
    Stages, Phases, Storages, Versions, Files
<1>13. ASSUME NEW k \in Keys, GrowOld(k) PROVE RemovalFacts'
  <2>1. TypeOK
    BY DEF WholeInv, BaseInv
  <2> QED BY <1>13, <2>1, AgeFacts DEF WholeInv, RemovalFacts, InRemoval
<1>14. ASSUME NEW k \in Keys, Invalidate(k) PROVE RemovalFacts'
  BY <1>14 DEF Invalidate, Idle, FilesOf, WholeInv, BaseInv, RemovalFacts,
    InRemoval, TypeOK, Stages, Phases, Storages, Versions, Files
<1>15. ASSUME NEW f \in Files, NEW k \in Keys, RemoveFile(f, k) PROVE
  RemovalFacts'
  <2>1. /\ removing' = removing \ {<<f, k>>}
        /\ body' = IF f = "body" THEN [body EXCEPT ![k] = NoFile] ELSE body
        /\ headers' = IF f = "headers" THEN [headers EXCEPT ![k] = NoHeaders]
                      ELSE headers
    BY <1>15 DEF RemoveFile
  <2>2. /\ body \in [Keys -> 0 .. MaxVersion]
        /\ headers \in [Keys -> [version : 0 .. MaxVersion, recent : BOOLEAN,
                                 checked : 0 .. MaxVersion]]
    BY DEF WholeInv, BaseInv, TypeOK
  <2>3. SUFFICES ASSUME NEW j \in Keys, InRemoval(j)'
                 PROVE  /\ <<"body", j>> \notin removing' => body'[j] = NoFile
                        /\ <<"headers", j>> \notin removing'
                              => headers'[j].version = NoFile
    BY DEF RemovalFacts
  <2>4. InRemoval(j)
    BY <2>1, <2>3 DEF InRemoval
  <2>5. /\ <<"body", j>> \notin removing => body[j] = NoFile
        /\ <<"headers", j>> \notin removing => headers[j].version = NoFile
    BY <2>4 DEF WholeInv, RemovalFacts
  <2>6. <<"body", j>> \notin removing' => body'[j] = NoFile
    <3>1. CASE f = "body" /\ j = k
      BY <2>1, <2>2, <3>1
    <3>2. CASE ~(f = "body" /\ j = k)
      <4>1. body'[j] = body[j] \/ body'[j] = NoFile
        BY <2>1, <2>2
      <4>2. <<"body", j>> \in removing => <<"body", j>> \in removing'
        BY <2>1, <3>2
      <4> QED BY <2>5, <4>1, <4>2
    <3> QED BY <3>1, <3>2
  <2>7. <<"headers", j>> \notin removing' => headers'[j].version = NoFile
    <3>1. CASE f = "headers" /\ j = k
      BY <2>1, <2>2, <3>1 DEF NoHeaders
    <3>2. CASE ~(f = "headers" /\ j = k)
      <4>1. headers'[j] = headers[j] \/ headers'[j].version = NoFile
        BY <2>1, <2>2 DEF NoHeaders
      <4>2. <<"headers", j>> \in removing => <<"headers", j>> \in removing'
        BY <2>1, <3>2
      <4> QED BY <2>5, <4>1, <4>2
    <3> QED BY <3>1, <3>2
  <2> QED BY <2>6, <2>7
<1>16. CASE Restart
  BY <1>16 DEF Restart, Idle, End, FilesOf, WholeInv, BaseInv, RemovalFacts,
    InRemoval, TypeOK, Stages, Phases, Storages, Versions, Files
<1>17. CASE UNCHANGED vars
  BY <1>17 DEF WholeInv, BaseInv, RemovalFacts, InRemoval, TypeOK, Stages,
    Phases, Storages, Versions, Files
<1> QED
  BY <1>1, <1>2, <1>3, <1>4, <1>5, <1>6, <1>7, <1>8, <1>9, <1>10, <1>11, <1>12,
    <1>13, <1>14, <1>15, <1>16, <1>17 DEF Next

LEMMA WholeStep ==
    ASSUME WholeInv, ~crashed, ~writeFailed, ~crashed', ~writeFailed',
      [Next]_vars
    PROVE  WholeFacts'
<1> USE CacheAssumption DEF vars, fileVars, requestVars, mainVars, historyVars
<1>1. ASSUME NEW r \in Requests, LoadFromCache(r) PROVE WholeFacts'
  BY <1>1 DEF LoadFromCache, Idle, shouldLoadFromCache, hasResponse, Deliver,
    End, WholeInv, BaseInv, RemovalFacts, InRemoval, WholeFacts, StoringFacts,
    AnswerFacts, pathForRequest, NoFile, TypeOK, Stages, Phases, Storages,
    Versions, Files
<1>2. ASSUME NEW r \in Requests, Dispatch(r) PROVE WholeFacts'
  BY <1>2 DEF Dispatch, Idle, etagForRequest, WholeInv, BaseInv, RemovalFacts,
    InRemoval, WholeFacts, StoringFacts, AnswerFacts, pathForRequest, NoFile,
    TypeOK, Stages, Phases, Storages, Versions, Files
<1>3. ASSUME NEW r \in Requests, RefuseOffline(r) PROVE WholeFacts'
  BY <1>3 DEF RefuseOffline, Idle, hasResponse, Deliver, End, Fail, WholeInv,
    BaseInv, RemovalFacts, InRemoval, WholeFacts, StoringFacts, AnswerFacts,
    pathForRequest, NoFile, TypeOK, Stages, Phases, Storages, Versions, Files
<1>4. ASSUME NEW r \in Requests, Reply(r) PROVE WholeFacts'
  BY <1>4 DEF Reply, WholeInv, BaseInv, RemovalFacts, InRemoval, WholeFacts,
    StoringFacts, AnswerFacts, pathForRequest, NoFile, TypeOK, Stages, Phases,
    Storages, Versions, Files
<1>5. ASSUME NEW r \in Requests, ConnectionFails(r) PROVE WholeFacts'
  BY <1>5 DEF ConnectionFails, Idle, hasResponse, Deliver, End, Fail, WholeInv,
    BaseInv, RemovalFacts, InRemoval, WholeFacts, StoringFacts, AnswerFacts,
    pathForRequest, NoFile, TypeOK, Stages, Phases, Storages, Versions, Files
<1>6. ASSUME NEW r \in Requests, ErrorStatus(r) PROVE WholeFacts'
  BY <1>6 DEF ErrorStatus, Idle, Fail, End, WholeInv, BaseInv, RemovalFacts,
    InRemoval, WholeFacts, StoringFacts, AnswerFacts, pathForRequest, NoFile,
    TypeOK, Stages, Phases, Storages, Versions, Files
<1>7. ASSUME NEW r \in Requests, StartStore(r) PROVE WholeFacts'
  BY <1>7 DEF StartStore, Idle, hasResponse, WholeInv, BaseInv, RemovalFacts,
    InRemoval, WholeFacts, StoringFacts, AnswerFacts, pathForRequest, NoFile,
    TypeOK, Stages, Phases, Storages, Versions, Files
<1>8. ASSUME NEW r \in Requests, PassBy(r) PROVE WholeFacts'
  BY <1>8 DEF PassBy, Idle, Deliver, End, WholeInv, BaseInv, RemovalFacts,
    InRemoval, WholeFacts, StoringFacts, AnswerFacts, pathForRequest, NoFile,
    TypeOK, Stages, Phases, Storages, Versions, Files
<1>9. ASSUME NEW r \in Requests, NEW written \in BOOLEAN, NotModified(r,
  written) PROVE WholeFacts'
  <2>1. /\ body' = body /\ busy' = busy /\ removing' = removing
        /\ storing' = storing /\ crashed' = crashed /\ storing = {}
    BY <1>9 DEF NotModified, Idle, WholeInv, BaseInv, TypeOK
  <2>2. ~writeFailed' => ~writeFailed
    BY <1>9 DEF NotModified
  <2>3. ASSUME NEW k \in Keys PROVE headers'[k].version = headers[k].version
    BY <1>9 DEF NotModified, Dated, WholeInv, BaseInv, TypeOK
  <2> QED BY <2>1, <2>2, <2>3 DEF WholeInv, WholeFacts, InRemoval
<1>10. ASSUME NEW r \in Requests, NEW written \in BOOLEAN, WriteBody(r,
  written) PROVE WholeFacts'
  <2>1. /\ removing = {} /\ storing' = storing /\ r \in storing
        /\ answer' = answer /\ headers' = headers
    BY <1>10 DEF WriteBody, WholeInv, BaseInv, TypeOK
  <2>2. written
    BY <1>10 DEF WriteBody
  <2>3. body' = [body EXCEPT ![Key[r]] = answer[r].version]
    BY <1>10, <2>2 DEF WriteBody
  <2>4. body \in [Keys -> 0 .. MaxVersion] /\ Key[r] \in Keys
    BY DEF WholeInv, BaseInv, TypeOK
  <2>5. \A q \in storing : q = r
    BY <2>1 DEF WholeInv, BaseInv, StoringFacts
  <2>6. \A j \in Keys : body[j] = headers[j].version \/ Key[r] = j
    BY <2>1, <2>5 DEF WholeInv, WholeFacts, InRemoval
  <2>7. \A j \in Keys : body'[j] = headers'[j].version \/ Key[r] = j
    BY <2>1, <2>3, <2>4, <2>6
  <2>8. \A q \in storing' : body'[Key[q]] = answer'[q].version
    BY <2>1, <2>3, <2>4, <2>5
  <2> QED BY <2>1, <2>7, <2>8 DEF WholeFacts
<1>11. ASSUME NEW r \in Requests, NEW written \in BOOLEAN, WriteHeaders(r,
  written) PROVE WholeFacts'
  <2>1. /\ removing = {} /\ r \in storing /\ body' = body
        /\ busy = "writeHeaders" /\ busy' = "idle"
    BY <1>11 DEF WriteHeaders, WholeInv, BaseInv, TypeOK
  <2>2. written
    BY <1>11 DEF WriteHeaders
  <2>3. headers' = [headers EXCEPT ![Key[r]] = HeadersFor(answer[r].version)]
    BY <1>11, <2>2 DEF WriteHeaders
  <2>4. /\ headers \in [Keys -> [version : 0 .. MaxVersion, recent : BOOLEAN,
                                 checked : 0 .. MaxVersion]]
        /\ Key[r] \in Keys
    BY DEF WholeInv, BaseInv, TypeOK
  <2>5. \A q \in storing : q = r
    BY <2>1 DEF WholeInv, BaseInv, StoringFacts
  <2>6. \A j \in Keys : body[j] = headers[j].version \/ Key[r] = j
    BY <2>1, <2>5 DEF WholeInv, WholeFacts, InRemoval
  <2>7. body[Key[r]] = answer[r].version
    BY <2>1 DEF WholeInv, WholeFacts
  <2>8. headers'[Key[r]].version = answer[r].version
    BY <2>3, <2>4 DEF HeadersFor
  <2>9. \A j \in Keys : body'[j] = headers'[j].version
    BY <2>1, <2>3, <2>4, <2>6, <2>7, <2>8
  <2> QED BY <2>1, <2>9 DEF WholeFacts
<1>12. ASSUME NEW k \in Keys, Change(k) PROVE WholeFacts'
  BY <1>12 DEF Change, WholeInv, BaseInv, RemovalFacts, InRemoval, WholeFacts,
    StoringFacts, AnswerFacts, pathForRequest, NoFile, TypeOK, Stages, Phases,
    Storages, Versions, Files
<1>13. ASSUME NEW k \in Keys, GrowOld(k) PROVE WholeFacts'
  <2>1. TypeOK
    BY DEF WholeInv, BaseInv
  <2> QED BY <1>13, <2>1, AgeFacts DEF WholeInv, WholeFacts, InRemoval
<1>14. ASSUME NEW k \in Keys, Invalidate(k) PROVE WholeFacts'
  BY <1>14 DEF Invalidate, Idle, FilesOf, WholeInv, BaseInv, RemovalFacts,
    InRemoval, WholeFacts, StoringFacts, AnswerFacts, pathForRequest, NoFile,
    TypeOK, Stages, Phases, Storages, Versions, Files
<1>15. ASSUME NEW f \in Files, NEW k \in Keys, RemoveFile(f, k) PROVE
  WholeFacts'
  BY <1>15 DEF RemoveFile, NextStage, NoHeaders, WholeInv, BaseInv,
    RemovalFacts, InRemoval, WholeFacts, StoringFacts, AnswerFacts,
    pathForRequest, NoFile, TypeOK, Stages, Phases, Storages, Versions, Files
<1>16. CASE Restart
  BY <1>16 DEF Restart, Idle, End, FilesOf, WholeInv, BaseInv, RemovalFacts,
    InRemoval, WholeFacts, StoringFacts, AnswerFacts, pathForRequest, NoFile,
    TypeOK, Stages, Phases, Storages, Versions, Files
<1>17. CASE UNCHANGED vars
  BY <1>17 DEF WholeInv, BaseInv, RemovalFacts, InRemoval, WholeFacts,
    StoringFacts, AnswerFacts, pathForRequest, NoFile, TypeOK, Stages, Phases,
    Storages, Versions, Files
<1> QED
  BY <1>1, <1>2, <1>3, <1>4, <1>5, <1>6, <1>7, <1>8, <1>9, <1>10, <1>11, <1>12,
    <1>13, <1>14, <1>15, <1>16, <1>17 DEF Next

LEMMA HollowStep ==
    ASSUME WholeInv, ~crashed, ~writeFailed, ~crashed', ~writeFailed',
      [Next]_vars
    PROVE  HollowOnlyAfterFault'
<1> USE CacheAssumption DEF vars, fileVars, requestVars, mainVars, historyVars
<1>1. ASSUME NEW r \in Requests, LoadFromCache(r) PROVE HollowOnlyAfterFault'
  BY <1>1 DEF LoadFromCache, Idle, shouldLoadFromCache, hasResponse, Deliver,
    End, WholeInv, BaseInv, RemovalFacts, InRemoval, WholeFacts, StoringFacts,
    AnswerFacts, HollowOnlyAfterFault, NoFile, NoBody, TypeOK, Stages, Phases,
    Storages, Versions, Files
<1>2. ASSUME NEW r \in Requests, Dispatch(r) PROVE HollowOnlyAfterFault'
  BY <1>2 DEF Dispatch, Idle, etagForRequest, WholeInv, BaseInv, RemovalFacts,
    InRemoval, WholeFacts, StoringFacts, AnswerFacts, HollowOnlyAfterFault,
    NoFile, NoBody, TypeOK, Stages, Phases, Storages, Versions, Files
<1>3. ASSUME NEW r \in Requests, RefuseOffline(r) PROVE HollowOnlyAfterFault'
  BY <1>3 DEF RefuseOffline, Idle, hasResponse, Deliver, End, Fail, WholeInv,
    BaseInv, RemovalFacts, InRemoval, WholeFacts, StoringFacts, AnswerFacts,
    HollowOnlyAfterFault, NoFile, NoBody, TypeOK, Stages, Phases, Storages,
    Versions, Files
<1>4. ASSUME NEW r \in Requests, Reply(r) PROVE HollowOnlyAfterFault'
  BY <1>4 DEF Reply, WholeInv, BaseInv, RemovalFacts, InRemoval, WholeFacts,
    StoringFacts, AnswerFacts, HollowOnlyAfterFault, NoFile, NoBody, TypeOK,
    Stages, Phases, Storages, Versions, Files
<1>5. ASSUME NEW r \in Requests, ConnectionFails(r) PROVE HollowOnlyAfterFault'
  BY <1>5 DEF ConnectionFails, Idle, hasResponse, Deliver, End, Fail, WholeInv,
    BaseInv, RemovalFacts, InRemoval, WholeFacts, StoringFacts, AnswerFacts,
    HollowOnlyAfterFault, NoFile, NoBody, TypeOK, Stages, Phases, Storages,
    Versions, Files
<1>6. ASSUME NEW r \in Requests, ErrorStatus(r) PROVE HollowOnlyAfterFault'
  BY <1>6 DEF ErrorStatus, Idle, Fail, End, WholeInv, BaseInv, RemovalFacts,
    InRemoval, WholeFacts, StoringFacts, AnswerFacts, HollowOnlyAfterFault,
    NoFile, NoBody, TypeOK, Stages, Phases, Storages, Versions, Files
<1>7. ASSUME NEW r \in Requests, StartStore(r) PROVE HollowOnlyAfterFault'
  BY <1>7 DEF StartStore, Idle, hasResponse, WholeInv, BaseInv, RemovalFacts,
    InRemoval, WholeFacts, StoringFacts, AnswerFacts, HollowOnlyAfterFault,
    NoFile, NoBody, TypeOK, Stages, Phases, Storages, Versions, Files
<1>8. ASSUME NEW r \in Requests, PassBy(r) PROVE HollowOnlyAfterFault'
  BY <1>8 DEF PassBy, Idle, Deliver, End, WholeInv, BaseInv, RemovalFacts,
    InRemoval, WholeFacts, StoringFacts, AnswerFacts, HollowOnlyAfterFault,
    NoFile, NoBody, TypeOK, Stages, Phases, Storages, Versions, Files
<1>9. ASSUME NEW r \in Requests, NEW written \in BOOLEAN, NotModified(r,
  written) PROVE HollowOnlyAfterFault'
  <2>1. /\ busy = "idle" /\ removing = {} /\ storing = {}
    BY <1>9 DEF NotModified, Idle, WholeInv, BaseInv, TypeOK
  <2>2. body[Key[r]] = headers[Key[r]].version
    BY <2>1 DEF WholeInv, WholeFacts, InRemoval
  <2>3. \/ Deliver(r, body[Key[r]]) /\ headers[Key[r]].version # NoFile
        \/ Fail(r)
    BY <1>9 DEF NotModified
  <2>4. End({r}, "loaded") \/ End({r}, "failed")
    BY <2>2, <2>3 DEF Deliver, Fail, NoFile, NoBody
  <2>5. \A q \in Requests : got[q] # "hollow"
    BY DEF WholeInv, HollowOnlyAfterFault
  <2>6. \A q \in Requests : got'[q] # "hollow"
    BY <2>4, <2>5 DEF End
  <2> QED BY <2>6 DEF HollowOnlyAfterFault
<1>10. ASSUME NEW r \in Requests, NEW written \in BOOLEAN, WriteBody(r,
  written) PROVE HollowOnlyAfterFault'
  BY <1>10 DEF WriteBody, WholeInv, BaseInv, RemovalFacts, InRemoval,
    WholeFacts, StoringFacts, AnswerFacts, HollowOnlyAfterFault, NoFile,
    NoBody, TypeOK, Stages, Phases, Storages, Versions, Files
<1>11. ASSUME NEW r \in Requests, NEW written \in BOOLEAN, WriteHeaders(r,
  written) PROVE HollowOnlyAfterFault'
  BY <1>11 DEF WriteHeaders, Deliver, End, HeadersFor, WholeInv, BaseInv,
    RemovalFacts, InRemoval, WholeFacts, StoringFacts, AnswerFacts,
    HollowOnlyAfterFault, NoFile, NoBody, TypeOK, Stages, Phases, Storages,
    Versions, Files
<1>12. ASSUME NEW k \in Keys, Change(k) PROVE HollowOnlyAfterFault'
  BY <1>12 DEF Change, WholeInv, BaseInv, RemovalFacts, InRemoval, WholeFacts,
    StoringFacts, AnswerFacts, HollowOnlyAfterFault, NoFile, NoBody, TypeOK,
    Stages, Phases, Storages, Versions, Files
<1>13. ASSUME NEW k \in Keys, GrowOld(k) PROVE HollowOnlyAfterFault'
  BY <1>13 DEF GrowOld, Aged, WholeInv, BaseInv, RemovalFacts, InRemoval,
    WholeFacts, StoringFacts, AnswerFacts, HollowOnlyAfterFault, NoFile,
    NoBody, TypeOK, Stages, Phases, Storages, Versions, Files
<1>14. ASSUME NEW k \in Keys, Invalidate(k) PROVE HollowOnlyAfterFault'
  BY <1>14 DEF Invalidate, Idle, FilesOf, WholeInv, BaseInv, RemovalFacts,
    InRemoval, WholeFacts, StoringFacts, AnswerFacts, HollowOnlyAfterFault,
    NoFile, NoBody, TypeOK, Stages, Phases, Storages, Versions, Files
<1>15. ASSUME NEW f \in Files, NEW k \in Keys, RemoveFile(f, k) PROVE
  HollowOnlyAfterFault'
  BY <1>15 DEF RemoveFile, NextStage, NoHeaders, WholeInv, BaseInv,
    RemovalFacts, InRemoval, WholeFacts, StoringFacts, AnswerFacts,
    HollowOnlyAfterFault, NoFile, NoBody, TypeOK, Stages, Phases, Storages,
    Versions, Files
<1>16. CASE Restart
  BY <1>16 DEF Restart, Idle, End, FilesOf, WholeInv, BaseInv, RemovalFacts,
    InRemoval, WholeFacts, StoringFacts, AnswerFacts, HollowOnlyAfterFault,
    NoFile, NoBody, TypeOK, Stages, Phases, Storages, Versions, Files
<1>17. CASE UNCHANGED vars
  BY <1>17 DEF WholeInv, BaseInv, RemovalFacts, InRemoval, WholeFacts,
    StoringFacts, AnswerFacts, HollowOnlyAfterFault, NoFile, NoBody, TypeOK,
    Stages, Phases, Storages, Versions, Files
<1> QED
  BY <1>1, <1>2, <1>3, <1>4, <1>5, <1>6, <1>7, <1>8, <1>9, <1>10, <1>11, <1>12,
    <1>13, <1>14, <1>15, <1>16, <1>17 DEF Next

\* A fault stays in the history.
FaultsKept ==
    (crashed => crashed') /\ (writeFailed => writeFailed')
        /\ (overlapped => overlapped')

LEMMA FaultsStay ==
    ASSUME TypeOK, [Next]_vars
    PROVE  FaultsKept
<1> USE CacheAssumption DEF vars, fileVars, requestVars, mainVars, historyVars
<1>1. ASSUME NEW r \in Requests, LoadFromCache(r) PROVE FaultsKept
  BY <1>1 DEF LoadFromCache, Idle, shouldLoadFromCache, hasResponse, Deliver,
    End, FaultsKept, TypeOK
<1>2. ASSUME NEW r \in Requests, Dispatch(r) PROVE FaultsKept
  BY <1>2 DEF Dispatch, Idle, etagForRequest, FaultsKept, TypeOK
<1>3. ASSUME NEW r \in Requests, RefuseOffline(r) PROVE FaultsKept
  BY <1>3 DEF RefuseOffline, Idle, hasResponse, Deliver, End, Fail, FaultsKept,
    TypeOK
<1>4. ASSUME NEW r \in Requests, Reply(r) PROVE FaultsKept
  BY <1>4 DEF Reply, FaultsKept, TypeOK
<1>5. ASSUME NEW r \in Requests, ConnectionFails(r) PROVE FaultsKept
  BY <1>5 DEF ConnectionFails, Idle, hasResponse, Deliver, End, Fail,
    FaultsKept, TypeOK
<1>6. ASSUME NEW r \in Requests, ErrorStatus(r) PROVE FaultsKept
  BY <1>6 DEF ErrorStatus, Idle, Fail, End, FaultsKept, TypeOK
<1>7. ASSUME NEW r \in Requests, StartStore(r) PROVE FaultsKept
  BY <1>7 DEF StartStore, Idle, hasResponse, FaultsKept, TypeOK
<1>8. ASSUME NEW r \in Requests, PassBy(r) PROVE FaultsKept
  BY <1>8 DEF PassBy, Idle, Deliver, End, FaultsKept, TypeOK
<1>9. ASSUME NEW r \in Requests, NEW written \in BOOLEAN, NotModified(r,
  written) PROVE FaultsKept
  BY <1>9 DEF NotModified, Idle, Deliver, End, Fail, Dated, FaultsKept, TypeOK
<1>10. ASSUME NEW r \in Requests, NEW written \in BOOLEAN, WriteBody(r,
  written) PROVE FaultsKept
  BY <1>10 DEF WriteBody, FaultsKept, TypeOK
<1>11. ASSUME NEW r \in Requests, NEW written \in BOOLEAN, WriteHeaders(r,
  written) PROVE FaultsKept
  BY <1>11 DEF WriteHeaders, Deliver, End, HeadersFor, FaultsKept, TypeOK
<1>12. ASSUME NEW k \in Keys, Change(k) PROVE FaultsKept
  BY <1>12 DEF Change, FaultsKept, TypeOK
<1>13. ASSUME NEW k \in Keys, GrowOld(k) PROVE FaultsKept
  BY <1>13 DEF GrowOld, Aged, FaultsKept, TypeOK
<1>14. ASSUME NEW k \in Keys, Invalidate(k) PROVE FaultsKept
  BY <1>14 DEF Invalidate, Idle, FilesOf, FaultsKept, TypeOK
<1>15. ASSUME NEW f \in Files, NEW k \in Keys, RemoveFile(f, k) PROVE
  FaultsKept
  BY <1>15 DEF RemoveFile, NextStage, NoHeaders, FaultsKept, TypeOK
<1>16. CASE Restart
  BY <1>16 DEF Restart, Idle, End, FilesOf, FaultsKept, TypeOK
<1>17. CASE UNCHANGED vars
  BY <1>17 DEF FaultsKept, TypeOK
<1> QED
  BY <1>1, <1>2, <1>3, <1>4, <1>5, <1>6, <1>7, <1>8, <1>9, <1>10, <1>11, <1>12,
    <1>13, <1>14, <1>15, <1>16, <1>17 DEF Next

LEMMA WholeInit == Init => WholeInv
<1> SUFFICES ASSUME Init PROVE WholeInv
  OBVIOUS
<1>1. HollowOnlyAfterFault
  BY DEF Init, HollowOnlyAfterFault
<1>2. RemovalFacts /\ WholeFacts
  BY DEF Init, RemovalFacts, InRemoval, WholeFacts, NoHeaders
<1> QED
  BY <1>1, <1>2, BaseInit DEF WholeInv

LEMMA WholeInvStep == WholeInv /\ [Next]_vars => WholeInv'
<1> SUFFICES ASSUME WholeInv, [Next]_vars PROVE WholeInv'
  OBVIOUS
<1>1. BaseInv'
  BY BaseStep DEF WholeInv
<1>2. CASE crashed' \/ writeFailed'
  BY <1>1, <1>2 DEF WholeInv, HollowOnlyAfterFault
<1>3. CASE ~crashed' /\ ~writeFailed'
  <2>1. ~crashed /\ ~writeFailed
    BY <1>3, FaultsStay DEF WholeInv, BaseInv, FaultsKept
  <2> QED
    BY <1>1, <1>3, <2>1, RemovalStep, WholeStep, HollowStep DEF WholeInv
<1> QED
  BY <1>2, <1>3


-----------------------------------------------------------------------------
(* Versions, while requests do not overlap and writes succeed.             *)

InFlight(r) == phase[r] \in {"wire", "answered"}

OnePerKey ==
    \A q, r \in Requests :
        InFlight(q) /\ InFlight(r) /\ Key[q] = Key[r] => q = r

\* What is stored or shown is no newer than the server's version, and the body
\* no older than its headers, their date, or what was shown.
FileFacts ==
    \A k \in Keys :
        /\ body[k] <= server[k] /\ shown[k] <= server[k]
        /\ headers[k].version <= server[k]
        /\ headers[k].checked <= headers[k].version
        /\ body[k] # NoFile => /\ body[k] >= shown[k]
                               /\ body[k] >= headers[k].version

\* An answer on its way is no older than what is stored and shown, and the tag it
\* was asked for with is the one in the headers, if they are still there.
FlightFacts ==
    \A r \in Requests :
        LET k == Key[r] IN
        /\ phase[r] = "answered" =>
              /\ answer[r].version <= server[k]
              /\ answer[r].version >= body[k]
              /\ answer[r].version >= shown[k]
              /\ answer[r].version >= headers[k].version
        /\ InFlight(r) /\ tag[r] # NoTag /\ headers[k].version # NoFile =>
              tag[r] = headers[k].version

WrittenFacts ==
    busy = "writeHeaders" => \A r \in storing : body[Key[r]] = answer[r].version

VersionInv ==
    /\ BaseInv
    /\ ~overlapped /\ ~writeFailed =>
          OnePerKey /\ FileFacts /\ FlightFacts /\ WrittenFacts

LEMMA OnePerKeyStep ==
    ASSUME VersionInv, ~overlapped, ~writeFailed, ~overlapped', ~writeFailed',
      [Next]_vars
    PROVE  OnePerKey'
<1> USE CacheAssumption DEF vars, fileVars, requestVars, mainVars, historyVars
<1>1. ASSUME NEW r \in Requests, LoadFromCache(r) PROVE OnePerKey'
  BY <1>1 DEF LoadFromCache, Idle, shouldLoadFromCache, hasResponse, Deliver,
    End, VersionInv, BaseInv, OnePerKey, InFlight, TypeOK, Stages, Phases,
    Storages, Versions, Files
<1>2. ASSUME NEW r \in Requests, Dispatch(r) PROVE OnePerKey'
  <2>1. \A q \in Requests : Key[q] = Key[r] => ~InFlight(q)
    BY <1>2 DEF Dispatch, InFlight
  <2>2. \A q \in Requests \ {r} : InFlight(q)' <=> InFlight(q)
    BY <1>2 DEF Dispatch, InFlight, VersionInv, BaseInv, TypeOK
  <2> QED BY <2>1, <2>2 DEF VersionInv, OnePerKey
<1>3. ASSUME NEW r \in Requests, RefuseOffline(r) PROVE OnePerKey'
  <2>1. PICK o \in {"loaded", "hollow", "failed"} : End({r}, o)
    BY <1>3 DEF RefuseOffline, Deliver, Fail
  <2>2. \A q \in Requests : InFlight(q)' => InFlight(q)
    BY <2>1 DEF End, InFlight
  <2> QED BY <2>2 DEF VersionInv, OnePerKey
<1>4. ASSUME NEW r \in Requests, Reply(r) PROVE OnePerKey'
  BY <1>4 DEF Reply, VersionInv, BaseInv, OnePerKey, InFlight, TypeOK, Stages,
    Phases, Storages, Versions, Files
<1>5. ASSUME NEW r \in Requests, ConnectionFails(r) PROVE OnePerKey'
  BY <1>5 DEF ConnectionFails, Idle, hasResponse, Deliver, End, Fail,
    VersionInv, BaseInv, OnePerKey, InFlight, TypeOK, Stages, Phases, Storages,
    Versions, Files
<1>6. ASSUME NEW r \in Requests, ErrorStatus(r) PROVE OnePerKey'
  BY <1>6 DEF ErrorStatus, Idle, Fail, End, VersionInv, BaseInv, OnePerKey,
    InFlight, TypeOK, Stages, Phases, Storages, Versions, Files
<1>7. ASSUME NEW r \in Requests, StartStore(r) PROVE OnePerKey'
  BY <1>7 DEF StartStore, Idle, hasResponse, VersionInv, BaseInv, OnePerKey,
    InFlight, TypeOK, Stages, Phases, Storages, Versions, Files
<1>8. ASSUME NEW r \in Requests, PassBy(r) PROVE OnePerKey'
  BY <1>8 DEF PassBy, Idle, Deliver, End, VersionInv, BaseInv, OnePerKey,
    InFlight, TypeOK, Stages, Phases, Storages, Versions, Files
<1>9. ASSUME NEW r \in Requests, NEW written \in BOOLEAN, NotModified(r,
  written) PROVE OnePerKey'
  BY <1>9 DEF NotModified, Idle, Deliver, End, Fail, Dated, VersionInv,
    BaseInv, OnePerKey, InFlight, TypeOK, Stages, Phases, Storages, Versions,
    Files
<1>10. ASSUME NEW r \in Requests, NEW written \in BOOLEAN, WriteBody(r,
  written) PROVE OnePerKey'
  BY <1>10 DEF WriteBody, VersionInv, BaseInv, OnePerKey, InFlight, TypeOK,
    Stages, Phases, Storages, Versions, Files
<1>11. ASSUME NEW r \in Requests, NEW written \in BOOLEAN, WriteHeaders(r,
  written) PROVE OnePerKey'
  BY <1>11 DEF WriteHeaders, Deliver, End, HeadersFor, VersionInv, BaseInv,
    OnePerKey, InFlight, TypeOK, Stages, Phases, Storages, Versions, Files
<1>12. ASSUME NEW k \in Keys, Change(k) PROVE OnePerKey'
  BY <1>12 DEF Change, VersionInv, BaseInv, OnePerKey, InFlight, TypeOK,
    Stages, Phases, Storages, Versions, Files
<1>13. ASSUME NEW k \in Keys, GrowOld(k) PROVE OnePerKey'
  BY <1>13 DEF GrowOld, Aged, VersionInv, BaseInv, OnePerKey, InFlight, TypeOK,
    Stages, Phases, Storages, Versions, Files
<1>14. ASSUME NEW k \in Keys, Invalidate(k) PROVE OnePerKey'
  BY <1>14 DEF Invalidate, Idle, FilesOf, VersionInv, BaseInv, OnePerKey,
    InFlight, TypeOK, Stages, Phases, Storages, Versions, Files
<1>15. ASSUME NEW f \in Files, NEW k \in Keys, RemoveFile(f, k) PROVE
  OnePerKey'
  BY <1>15 DEF RemoveFile, NextStage, NoHeaders, VersionInv, BaseInv,
    OnePerKey, InFlight, TypeOK, Stages, Phases, Storages, Versions, Files
<1>16. CASE Restart
  BY <1>16 DEF Restart, Idle, End, FilesOf, VersionInv, BaseInv, OnePerKey,
    InFlight, TypeOK, Stages, Phases, Storages, Versions, Files
<1>17. CASE UNCHANGED vars
  BY <1>17 DEF VersionInv, BaseInv, OnePerKey, InFlight, TypeOK, Stages,
    Phases, Storages, Versions, Files
<1> QED
  BY <1>1, <1>2, <1>3, <1>4, <1>5, <1>6, <1>7, <1>8, <1>9, <1>10, <1>11, <1>12,
    <1>13, <1>14, <1>15, <1>16, <1>17 DEF Next

LEMMA FileStep ==
    ASSUME VersionInv, ~overlapped, ~writeFailed, ~overlapped', ~writeFailed',
      [Next]_vars
    PROVE  FileFacts'
<1> USE CacheAssumption DEF vars, fileVars, requestVars, mainVars, historyVars
<1>1. ASSUME NEW r \in Requests, LoadFromCache(r) PROVE FileFacts'
  BY <1>1 DEF LoadFromCache, Idle, shouldLoadFromCache, hasResponse, Deliver,
    End, VersionInv, BaseInv, OnePerKey, InFlight, FileFacts, FlightFacts,
    WrittenFacts, StoringFacts, AnswerFacts, NoFile, NoHeaders, TypeOK, Stages,
    Phases, Storages, Versions, Files
<1>2. ASSUME NEW r \in Requests, Dispatch(r) PROVE FileFacts'
  BY <1>2 DEF Dispatch, Idle, etagForRequest, VersionInv, BaseInv, OnePerKey,
    InFlight, FileFacts, FlightFacts, WrittenFacts, StoringFacts, AnswerFacts,
    NoFile, NoHeaders, TypeOK, Stages, Phases, Storages, Versions, Files
<1>3. ASSUME NEW r \in Requests, RefuseOffline(r) PROVE FileFacts'
  <2> DEFINE s == [shown EXCEPT ![Key[r]] = body[Key[r]]]
  <2>1. shown' = shown \/ (shown' = s /\ body[Key[r]] # NoFile)
    BY <1>3 DEF RefuseOffline, Deliver, Fail, NoBody, NoFile
  <2>2. body' = body /\ headers' = headers /\ server' = server
    BY <1>3 DEF RefuseOffline
  <2>3. Key[r] \in Keys
    OBVIOUS
  <2>4. ASSUME NEW j \in Keys
        PROVE  shown'[j] <= server[j] /\ (body[j] # NoFile => body[j] >=
          shown'[j])
    <3>1. shown'[j] = shown[j]
          \/ (shown'[j] = body[j] /\ body[j] # NoFile)
      BY <2>1, <2>3 DEF VersionInv, BaseInv, TypeOK
    <3> QED BY <3>1 DEF VersionInv, BaseInv, FileFacts, TypeOK, Versions
  <2> QED BY <2>2, <2>4 DEF VersionInv, FileFacts
<1>4. ASSUME NEW r \in Requests, Reply(r) PROVE FileFacts'
  BY <1>4 DEF Reply, VersionInv, BaseInv, OnePerKey, InFlight, FileFacts,
    FlightFacts, WrittenFacts, StoringFacts, AnswerFacts, NoFile, NoHeaders,
    TypeOK, Stages, Phases, Storages, Versions, Files
<1>5. ASSUME NEW r \in Requests, ConnectionFails(r) PROVE FileFacts'
  <2> DEFINE s == [shown EXCEPT ![Key[r]] = body[Key[r]]]
  <2>1. shown' = shown \/ (shown' = s /\ body[Key[r]] # NoFile)
    BY <1>5 DEF ConnectionFails, Deliver, Fail, NoBody, NoFile
  <2>2. body' = body /\ headers' = headers /\ server' = server
    BY <1>5 DEF ConnectionFails
  <2>3. Key[r] \in Keys
    OBVIOUS
  <2>4. ASSUME NEW j \in Keys
        PROVE  shown'[j] <= server[j] /\ (body[j] # NoFile => body[j] >=
          shown'[j])
    <3>1. shown'[j] = shown[j]
          \/ (shown'[j] = body[j] /\ body[j] # NoFile)
      BY <2>1, <2>3 DEF VersionInv, BaseInv, TypeOK
    <3> QED BY <3>1 DEF VersionInv, BaseInv, FileFacts, TypeOK, Versions
  <2> QED BY <2>2, <2>4 DEF VersionInv, FileFacts
<1>6. ASSUME NEW r \in Requests, ErrorStatus(r) PROVE FileFacts'
  BY <1>6 DEF ErrorStatus, Idle, Fail, End, VersionInv, BaseInv, OnePerKey,
    InFlight, FileFacts, FlightFacts, WrittenFacts, StoringFacts, AnswerFacts,
    NoFile, NoHeaders, TypeOK, Stages, Phases, Storages, Versions, Files
<1>7. ASSUME NEW r \in Requests, StartStore(r) PROVE FileFacts'
  BY <1>7 DEF StartStore, Idle, hasResponse, VersionInv, BaseInv, OnePerKey,
    InFlight, FileFacts, FlightFacts, WrittenFacts, StoringFacts, AnswerFacts,
    NoFile, NoHeaders, TypeOK, Stages, Phases, Storages, Versions, Files
<1>8. ASSUME NEW r \in Requests, PassBy(r) PROVE FileFacts'
  BY <1>8 DEF PassBy, Idle, Deliver, End, VersionInv, BaseInv, OnePerKey,
    InFlight, FileFacts, FlightFacts, WrittenFacts, StoringFacts, AnswerFacts,
    NoFile, NoHeaders, TypeOK, Stages, Phases, Storages, Versions, Files
<1>9. ASSUME NEW r \in Requests, NEW written \in BOOLEAN, NotModified(r,
  written) PROVE FileFacts'
  <2> DEFINE s == [shown EXCEPT ![Key[r]] = body[Key[r]]]
             d == [headers EXCEPT ![Key[r]] = Dated(@, answer[r].version)]
  <2>1. shown' = shown \/ (shown' = s /\ body[Key[r]] # NoFile)
    BY <1>9 DEF NotModified, Deliver, Fail, NoBody, NoFile
  <2>2. /\ body' = body /\ server' = server
        /\ headers' = headers \/ (headers' = d /\ headers[Key[r]].version #
          NoFile)
    BY <1>9 DEF NotModified
  <2>3. /\ Key[r] \in Keys /\ InFlight(r)
        /\ answer[r].version = tag[r] /\ answer[r].version \in Versions
    BY <1>9 DEF NotModified, VersionInv, BaseInv, AnswerFacts, InFlight
  <2>4. headers[Key[r]].version # NoFile => answer[r].version =
    headers[Key[r]].version
    BY <2>3, CacheAssumption DEF VersionInv, FlightFacts, NoTag, Versions
  <2>5. ASSUME NEW j \in Keys
        PROVE  shown'[j] <= server[j] /\ (body[j] # NoFile => body[j] >=
          shown'[j])
    <3>1. shown'[j] = shown[j]
          \/ (shown'[j] = body[j] /\ body[j] # NoFile)
      BY <2>1, <2>3 DEF VersionInv, BaseInv, TypeOK
    <3> QED BY <3>1 DEF VersionInv, BaseInv, FileFacts, TypeOK, Versions
  <2>6. ASSUME NEW j \in Keys
        PROVE  /\ headers'[j].version = headers[j].version
               /\ headers'[j].checked <= headers[j].version
    <3>1. \/ headers'[j] = headers[j]
          \/ /\ headers'[j] = Dated(headers[j], answer[r].version)
             /\ answer[r].version = headers[j].version
      BY <2>2, <2>3, <2>4 DEF VersionInv, BaseInv, TypeOK
    <3>2. /\ headers[j].checked <= headers[j].version
          /\ headers[j].version \in 0 .. MaxVersion
      BY DEF VersionInv, FileFacts, BaseInv, TypeOK
    <3> QED BY <3>1, <3>2 DEF Dated
  <2> QED BY <2>2, <2>5, <2>6 DEF VersionInv, FileFacts
<1>10. ASSUME NEW r \in Requests, NEW written \in BOOLEAN, WriteBody(r,
  written) PROVE FileFacts'
  BY <1>10 DEF WriteBody, VersionInv, BaseInv, OnePerKey, InFlight, FileFacts,
    FlightFacts, WrittenFacts, StoringFacts, AnswerFacts, NoFile, NoHeaders,
    TypeOK, Stages, Phases, Storages, Versions, Files
<1>11. ASSUME NEW r \in Requests, NEW written \in BOOLEAN, WriteHeaders(r,
  written) PROVE FileFacts'
  BY <1>11 DEF WriteHeaders, Deliver, End, HeadersFor, VersionInv, BaseInv,
    OnePerKey, InFlight, FileFacts, FlightFacts, WrittenFacts, StoringFacts,
    AnswerFacts, NoFile, NoHeaders, TypeOK, Stages, Phases, Storages, Versions,
    Files
<1>12. ASSUME NEW k \in Keys, Change(k) PROVE FileFacts'
  BY <1>12 DEF Change, VersionInv, BaseInv, OnePerKey, InFlight, FileFacts,
    FlightFacts, WrittenFacts, StoringFacts, AnswerFacts, NoFile, NoHeaders,
    TypeOK, Stages, Phases, Storages, Versions, Files
<1>13. ASSUME NEW k \in Keys, GrowOld(k) PROVE FileFacts'
  <2>1. TypeOK
    BY DEF VersionInv, BaseInv
  <2> QED BY <1>13, <2>1, AgeFacts DEF VersionInv, FileFacts
<1>14. ASSUME NEW k \in Keys, Invalidate(k) PROVE FileFacts'
  BY <1>14 DEF Invalidate, Idle, FilesOf, VersionInv, BaseInv, OnePerKey,
    InFlight, FileFacts, FlightFacts, WrittenFacts, StoringFacts, AnswerFacts,
    NoFile, NoHeaders, TypeOK, Stages, Phases, Storages, Versions, Files
<1>15. ASSUME NEW f \in Files, NEW k \in Keys, RemoveFile(f, k) PROVE
  FileFacts'
  BY <1>15 DEF RemoveFile, NextStage, NoHeaders, VersionInv, BaseInv,
    OnePerKey, InFlight, FileFacts, FlightFacts, WrittenFacts, StoringFacts,
    AnswerFacts, NoFile, TypeOK, Stages, Phases, Storages, Versions, Files
<1>16. CASE Restart
  BY <1>16 DEF Restart, Idle, End, FilesOf, VersionInv, BaseInv, OnePerKey,
    InFlight, FileFacts, FlightFacts, WrittenFacts, StoringFacts, AnswerFacts,
    NoFile, NoHeaders, TypeOK, Stages, Phases, Storages, Versions, Files
<1>17. CASE UNCHANGED vars
  BY <1>17 DEF VersionInv, BaseInv, OnePerKey, InFlight, FileFacts,
    FlightFacts, WrittenFacts, StoringFacts, AnswerFacts, NoFile, NoHeaders,
    TypeOK, Stages, Phases, Storages, Versions, Files
<1> QED
  BY <1>1, <1>2, <1>3, <1>4, <1>5, <1>6, <1>7, <1>8, <1>9, <1>10, <1>11, <1>12,
    <1>13, <1>14, <1>15, <1>16, <1>17 DEF Next

LEMMA WrittenStep ==
    ASSUME VersionInv, ~overlapped, ~writeFailed, ~overlapped', ~writeFailed',
      [Next]_vars
    PROVE  WrittenFacts'
<1> USE CacheAssumption DEF vars, fileVars, requestVars, mainVars, historyVars
<1>1. ASSUME NEW r \in Requests, LoadFromCache(r) PROVE WrittenFacts'
  BY <1>1 DEF LoadFromCache, Idle, shouldLoadFromCache, hasResponse, Deliver,
    End, VersionInv, BaseInv, WrittenFacts, StoringFacts, TypeOK, Stages,
    Phases, Storages, Versions, Files
<1>2. ASSUME NEW r \in Requests, Dispatch(r) PROVE WrittenFacts'
  BY <1>2 DEF Dispatch, Idle, etagForRequest, VersionInv, BaseInv,
    WrittenFacts, StoringFacts, TypeOK, Stages, Phases, Storages, Versions,
    Files
<1>3. ASSUME NEW r \in Requests, RefuseOffline(r) PROVE WrittenFacts'
  BY <1>3 DEF RefuseOffline, Idle, hasResponse, Deliver, End, Fail, VersionInv,
    BaseInv, WrittenFacts, StoringFacts, TypeOK, Stages, Phases, Storages,
    Versions, Files
<1>4. ASSUME NEW r \in Requests, Reply(r) PROVE WrittenFacts'
  BY <1>4 DEF Reply, VersionInv, BaseInv, WrittenFacts, StoringFacts, TypeOK,
    Stages, Phases, Storages, Versions, Files
<1>5. ASSUME NEW r \in Requests, ConnectionFails(r) PROVE WrittenFacts'
  BY <1>5 DEF ConnectionFails, Idle, hasResponse, Deliver, End, Fail,
    VersionInv, BaseInv, WrittenFacts, StoringFacts, TypeOK, Stages, Phases,
    Storages, Versions, Files
<1>6. ASSUME NEW r \in Requests, ErrorStatus(r) PROVE WrittenFacts'
  BY <1>6 DEF ErrorStatus, Idle, Fail, End, VersionInv, BaseInv, WrittenFacts,
    StoringFacts, TypeOK, Stages, Phases, Storages, Versions, Files
<1>7. ASSUME NEW r \in Requests, StartStore(r) PROVE WrittenFacts'
  BY <1>7 DEF StartStore, Idle, hasResponse, VersionInv, BaseInv, WrittenFacts,
    StoringFacts, TypeOK, Stages, Phases, Storages, Versions, Files
<1>8. ASSUME NEW r \in Requests, PassBy(r) PROVE WrittenFacts'
  BY <1>8 DEF PassBy, Idle, Deliver, End, VersionInv, BaseInv, WrittenFacts,
    StoringFacts, TypeOK, Stages, Phases, Storages, Versions, Files
<1>9. ASSUME NEW r \in Requests, NEW written \in BOOLEAN, NotModified(r,
  written) PROVE WrittenFacts'
  BY <1>9 DEF NotModified, Idle, Deliver, End, Fail, Dated, VersionInv,
    BaseInv, WrittenFacts, StoringFacts, TypeOK, Stages, Phases, Storages,
    Versions, Files
<1>10. ASSUME NEW r \in Requests, NEW written \in BOOLEAN, WriteBody(r,
  written) PROVE WrittenFacts'
  <2>1. storing' = storing /\ r \in storing /\ answer' = answer
    BY <1>10 DEF WriteBody
  <2>2. body' = [body EXCEPT ![Key[r]] = answer[r].version]
    BY <1>10 DEF WriteBody
  <2>3. body \in [Keys -> 0 .. MaxVersion] /\ Key[r] \in Keys
    BY DEF VersionInv, BaseInv, TypeOK
  <2>4. \A q \in storing : q = r
    BY <2>1 DEF VersionInv, BaseInv, StoringFacts
  <2> QED BY <2>1, <2>2, <2>3, <2>4 DEF WrittenFacts
<1>11. ASSUME NEW r \in Requests, NEW written \in BOOLEAN, WriteHeaders(r,
  written) PROVE WrittenFacts'
  BY <1>11 DEF WriteHeaders, Deliver, End, HeadersFor, VersionInv, BaseInv,
    WrittenFacts, StoringFacts, TypeOK, Stages, Phases, Storages, Versions,
    Files
<1>12. ASSUME NEW k \in Keys, Change(k) PROVE WrittenFacts'
  BY <1>12 DEF Change, VersionInv, BaseInv, WrittenFacts, StoringFacts, TypeOK,
    Stages, Phases, Storages, Versions, Files
<1>13. ASSUME NEW k \in Keys, GrowOld(k) PROVE WrittenFacts'
  BY <1>13 DEF GrowOld, Aged, VersionInv, BaseInv, WrittenFacts, StoringFacts,
    TypeOK, Stages, Phases, Storages, Versions, Files
<1>14. ASSUME NEW k \in Keys, Invalidate(k) PROVE WrittenFacts'
  BY <1>14 DEF Invalidate, Idle, FilesOf, VersionInv, BaseInv, WrittenFacts,
    StoringFacts, TypeOK, Stages, Phases, Storages, Versions, Files
<1>15. ASSUME NEW f \in Files, NEW k \in Keys, RemoveFile(f, k) PROVE
  WrittenFacts'
  BY <1>15 DEF RemoveFile, NextStage, NoHeaders, VersionInv, BaseInv,
    WrittenFacts, StoringFacts, TypeOK, Stages, Phases, Storages, Versions,
    Files
<1>16. CASE Restart
  BY <1>16 DEF Restart, Idle, End, FilesOf, VersionInv, BaseInv, WrittenFacts,
    StoringFacts, TypeOK, Stages, Phases, Storages, Versions, Files
<1>17. CASE UNCHANGED vars
  BY <1>17 DEF VersionInv, BaseInv, WrittenFacts, StoringFacts, TypeOK, Stages,
    Phases, Storages, Versions, Files
<1> QED
  BY <1>1, <1>2, <1>3, <1>4, <1>5, <1>6, <1>7, <1>8, <1>9, <1>10, <1>11, <1>12,
    <1>13, <1>14, <1>15, <1>16, <1>17 DEF Next

LEMMA FlightStep ==
    ASSUME VersionInv, ~overlapped, ~writeFailed, ~overlapped', ~writeFailed',
      [Next]_vars
    PROVE  FlightFacts'
<1> USE CacheAssumption DEF vars, fileVars, requestVars, mainVars, historyVars
<1>1. ASSUME NEW r \in Requests, LoadFromCache(r) PROVE FlightFacts'
  BY <1>1 DEF LoadFromCache, Idle, shouldLoadFromCache, hasResponse, Deliver,
    End, VersionInv, BaseInv, OnePerKey, InFlight, FileFacts, FlightFacts,
    WrittenFacts, StoringFacts, AnswerFacts, NoFile, NoTag, NoHeaders, TypeOK,
    Stages, Phases, Storages, Versions, Files
<1>2. ASSUME NEW r \in Requests, Dispatch(r) PROVE FlightFacts'
  BY <1>2 DEF Dispatch, Idle, etagForRequest, VersionInv, BaseInv, OnePerKey,
    InFlight, FileFacts, FlightFacts, WrittenFacts, StoringFacts, AnswerFacts,
    NoFile, NoTag, NoHeaders, TypeOK, Stages, Phases, Storages, Versions, Files
<1>3. ASSUME NEW r \in Requests, RefuseOffline(r) PROVE FlightFacts'
  <2> DEFINE s == [shown EXCEPT ![Key[r]] = body[Key[r]]]
  <2>1. shown' = shown \/ shown' = s
    BY <1>3 DEF RefuseOffline, Deliver, Fail
  <2>2. body' = body /\ headers' = headers /\ server' = server
    BY <1>3 DEF RefuseOffline
  <2>3. PICK o \in {"loaded", "hollow", "failed"} : End({r}, o)
    BY <1>3 DEF RefuseOffline, Deliver, Fail
  <2>4. ASSUME NEW q \in Requests
        PROVE  /\ phase'[q] = "answered" =>
                     phase[q] = "answered" /\ answer'[q] = answer[q]
               /\ InFlight(q)' => InFlight(q) /\ tag'[q] = tag[q]
    BY <2>3 DEF End, InFlight
  <2>5. ASSUME NEW q \in Requests
        PROVE  shown'[Key[q]] = shown[Key[q]] \/ shown'[Key[q]] = body[Key[q]]
    BY <2>1 DEF VersionInv, BaseInv, TypeOK
  <2> QED BY <2>2, <2>4, <2>5 DEF VersionInv, FlightFacts
<1>4. ASSUME NEW r \in Requests, Reply(r) PROVE FlightFacts'
  BY <1>4 DEF Reply, VersionInv, BaseInv, OnePerKey, InFlight, FileFacts,
    FlightFacts, WrittenFacts, StoringFacts, AnswerFacts, NoFile, NoTag,
    NoHeaders, TypeOK, Stages, Phases, Storages, Versions, Files
<1>5. ASSUME NEW r \in Requests, ConnectionFails(r) PROVE FlightFacts'
  BY <1>5 DEF ConnectionFails, Idle, hasResponse, Deliver, End, Fail,
    VersionInv, BaseInv, OnePerKey, InFlight, FileFacts, FlightFacts,
    WrittenFacts, StoringFacts, AnswerFacts, NoFile, NoTag, NoHeaders, TypeOK,
    Stages, Phases, Storages, Versions, Files
<1>6. ASSUME NEW r \in Requests, ErrorStatus(r) PROVE FlightFacts'
  BY <1>6 DEF ErrorStatus, Idle, Fail, End, VersionInv, BaseInv, OnePerKey,
    InFlight, FileFacts, FlightFacts, WrittenFacts, StoringFacts, AnswerFacts,
    NoFile, NoTag, NoHeaders, TypeOK, Stages, Phases, Storages, Versions, Files
<1>7. ASSUME NEW r \in Requests, StartStore(r) PROVE FlightFacts'
  BY <1>7 DEF StartStore, Idle, hasResponse, VersionInv, BaseInv, OnePerKey,
    InFlight, FileFacts, FlightFacts, WrittenFacts, StoringFacts, AnswerFacts,
    NoFile, NoTag, NoHeaders, TypeOK, Stages, Phases, Storages, Versions, Files
<1>8. ASSUME NEW r \in Requests, PassBy(r) PROVE FlightFacts'
  BY <1>8 DEF PassBy, Idle, Deliver, End, VersionInv, BaseInv, OnePerKey,
    InFlight, FileFacts, FlightFacts, WrittenFacts, StoringFacts, AnswerFacts,
    NoFile, NoTag, NoHeaders, TypeOK, Stages, Phases, Storages, Versions, Files
<1>9. ASSUME NEW r \in Requests, NEW written \in BOOLEAN, NotModified(r,
  written) PROVE FlightFacts'
  BY <1>9 DEF NotModified, Idle, Deliver, End, Fail, Dated, VersionInv,
    BaseInv, OnePerKey, InFlight, FileFacts, FlightFacts, WrittenFacts,
    StoringFacts, AnswerFacts, NoFile, NoTag, NoHeaders, TypeOK, Stages,
    Phases, Storages, Versions, Files
<1>10. ASSUME NEW r \in Requests, NEW written \in BOOLEAN, WriteBody(r,
  written) PROVE FlightFacts'
  BY <1>10 DEF WriteBody, VersionInv, BaseInv, OnePerKey, InFlight, FileFacts,
    FlightFacts, WrittenFacts, StoringFacts, AnswerFacts, NoFile, NoTag,
    NoHeaders, TypeOK, Stages, Phases, Storages, Versions, Files
<1>11. ASSUME NEW r \in Requests, NEW written \in BOOLEAN, WriteHeaders(r,
  written) PROVE FlightFacts'
  BY <1>11 DEF WriteHeaders, Deliver, End, HeadersFor, VersionInv, BaseInv,
    OnePerKey, InFlight, FileFacts, FlightFacts, WrittenFacts, StoringFacts,
    AnswerFacts, NoFile, NoTag, NoHeaders, TypeOK, Stages, Phases, Storages,
    Versions, Files
<1>12. ASSUME NEW k \in Keys, Change(k) PROVE FlightFacts'
  BY <1>12 DEF Change, VersionInv, BaseInv, OnePerKey, InFlight, FileFacts,
    FlightFacts, WrittenFacts, StoringFacts, AnswerFacts, NoFile, NoTag,
    NoHeaders, TypeOK, Stages, Phases, Storages, Versions, Files
<1>13. ASSUME NEW k \in Keys, GrowOld(k) PROVE FlightFacts'
  <2>1. TypeOK
    BY DEF VersionInv, BaseInv
  <2> QED BY <1>13, <2>1, AgeFacts DEF VersionInv, FlightFacts, InFlight
<1>14. ASSUME NEW k \in Keys, Invalidate(k) PROVE FlightFacts'
  BY <1>14 DEF Invalidate, Idle, FilesOf, VersionInv, BaseInv, OnePerKey,
    InFlight, FileFacts, FlightFacts, WrittenFacts, StoringFacts, AnswerFacts,
    NoFile, NoTag, NoHeaders, TypeOK, Stages, Phases, Storages, Versions, Files
<1>15. ASSUME NEW f \in Files, NEW k \in Keys, RemoveFile(f, k) PROVE
  FlightFacts'
  BY <1>15 DEF RemoveFile, NextStage, NoHeaders, VersionInv, BaseInv,
    OnePerKey, InFlight, FileFacts, FlightFacts, WrittenFacts, StoringFacts,
    AnswerFacts, NoFile, NoTag, TypeOK, Stages, Phases, Storages, Versions,
    Files
<1>16. CASE Restart
  BY <1>16 DEF Restart, Idle, End, FilesOf, VersionInv, BaseInv, OnePerKey,
    InFlight, FileFacts, FlightFacts, WrittenFacts, StoringFacts, AnswerFacts,
    NoFile, NoTag, NoHeaders, TypeOK, Stages, Phases, Storages, Versions, Files
<1>17. CASE UNCHANGED vars
  BY <1>17 DEF VersionInv, BaseInv, OnePerKey, InFlight, FileFacts,
    FlightFacts, WrittenFacts, StoringFacts, AnswerFacts, NoFile, NoTag,
    NoHeaders, TypeOK, Stages, Phases, Storages, Versions, Files
<1> QED
  BY <1>1, <1>2, <1>3, <1>4, <1>5, <1>6, <1>7, <1>8, <1>9, <1>10, <1>11, <1>12,
    <1>13, <1>14, <1>15, <1>16, <1>17 DEF Next

LEMMA VersionInit == Init => VersionInv
<1> SUFFICES ASSUME Init PROVE VersionInv
  OBVIOUS
<1>1. OnePerKey /\ FlightFacts /\ WrittenFacts
  BY DEF Init, OnePerKey, FlightFacts, WrittenFacts, InFlight
<1>2. FileFacts
  BY DEF Init, FileFacts, NoFile, NoBody, NoHeaders
<1> QED
  BY <1>1, <1>2, BaseInit DEF VersionInv

LEMMA VersionStep == VersionInv /\ [Next]_vars => VersionInv'
<1> SUFFICES ASSUME VersionInv, [Next]_vars PROVE VersionInv'
  OBVIOUS
<1>1. BaseInv'
  BY BaseStep DEF VersionInv
<1>2. ASSUME ~overlapped', ~writeFailed'
      PROVE  OnePerKey' /\ FileFacts' /\ FlightFacts' /\ WrittenFacts'
  <2>1. ~overlapped /\ ~writeFailed
    BY <1>2, FaultsStay DEF VersionInv, BaseInv, FaultsKept
  <2> QED
    BY <1>2, <2>1, OnePerKeyStep, FileStep, FlightStep, WrittenStep
<1> QED
  BY <1>1, <1>2 DEF VersionInv

\* What a handler shows is no older than what was shown.
Monotone == \A k \in Keys : shown'[k] >= shown[k]

LEMMA ShownStep ==
    ASSUME VersionInv, ~overlapped, ~writeFailed,
           NEW r \in Requests, NEW v \in 0 .. MaxVersion,
           Deliver(r, v) \/ Fail(r),
           v # NoBody => v >= shown[Key[r]]
    PROVE  Monotone
<1> DEFINE s == [shown EXCEPT ![Key[r]] = v]
<1>1. shown' = shown \/ (shown' = s /\ v # NoBody)
  BY DEF Deliver, Fail
<1>2. shown \in [Keys -> 0 .. MaxVersion] /\ Key[r] \in Keys
  BY CacheAssumption DEF VersionInv, BaseInv, TypeOK
<1>3. ASSUME NEW j \in Keys PROVE shown'[j] >= shown[j]
  BY <1>1, <1>2
<1> QED BY <1>3 DEF Monotone

LEMMA MonotoneStep ==
    ASSUME VersionInv, ~overlapped, ~writeFailed, [Next]_vars
    PROVE  Monotone
<1> USE CacheAssumption DEF vars, fileVars, requestVars, mainVars, historyVars
<1>1. ASSUME NEW r \in Requests, LoadFromCache(r) PROVE Monotone
  <2>1. body[Key[r]] \in 0 .. MaxVersion
    BY DEF VersionInv, BaseInv, TypeOK
  <2>2. Deliver(r, body[Key[r]]) \/ Fail(r)
    BY <1>1 DEF LoadFromCache
  <2>3. body[Key[r]] # NoBody => body[Key[r]] >= shown[Key[r]]
    BY DEF VersionInv, FileFacts, NoBody, NoFile
  <2> QED BY <2>1, <2>2, <2>3, ShownStep
<1>2. ASSUME NEW r \in Requests, Dispatch(r) PROVE Monotone
  BY <1>2 DEF Dispatch, VersionInv, BaseInv, TypeOK, Monotone
<1>3. ASSUME NEW r \in Requests, RefuseOffline(r) PROVE Monotone
  <2>1. body[Key[r]] \in 0 .. MaxVersion
    BY DEF VersionInv, BaseInv, TypeOK
  <2>2. Deliver(r, body[Key[r]]) \/ Fail(r)
    BY <1>3 DEF RefuseOffline
  <2>3. body[Key[r]] # NoBody => body[Key[r]] >= shown[Key[r]]
    BY DEF VersionInv, FileFacts, NoBody, NoFile
  <2> QED BY <2>1, <2>2, <2>3, ShownStep
<1>4. ASSUME NEW r \in Requests, Reply(r) PROVE Monotone
  BY <1>4 DEF Reply, VersionInv, BaseInv, TypeOK, Monotone
<1>5. ASSUME NEW r \in Requests, ConnectionFails(r) PROVE Monotone
  <2>1. body[Key[r]] \in 0 .. MaxVersion
    BY DEF VersionInv, BaseInv, TypeOK
  <2>2. Deliver(r, body[Key[r]]) \/ Fail(r)
    BY <1>5 DEF ConnectionFails
  <2>3. body[Key[r]] # NoBody => body[Key[r]] >= shown[Key[r]]
    BY DEF VersionInv, FileFacts, NoBody, NoFile
  <2> QED BY <2>1, <2>2, <2>3, ShownStep
<1>6. ASSUME NEW r \in Requests, ErrorStatus(r) PROVE Monotone
  <2>1. body[Key[r]] \in 0 .. MaxVersion
    BY DEF VersionInv, BaseInv, TypeOK
  <2>2. Deliver(r, body[Key[r]]) \/ Fail(r)
    BY <1>6 DEF ErrorStatus
  <2>3. body[Key[r]] # NoBody => body[Key[r]] >= shown[Key[r]]
    BY DEF VersionInv, FileFacts, NoBody, NoFile
  <2> QED BY <2>1, <2>2, <2>3, ShownStep
<1>7. ASSUME NEW r \in Requests, StartStore(r) PROVE Monotone
  BY <1>7 DEF StartStore, VersionInv, BaseInv, TypeOK, Monotone
<1>8. ASSUME NEW r \in Requests, PassBy(r) PROVE Monotone
  <2>1. phase[r] = "answered" /\ answer[r].version \in 0 .. MaxVersion
    BY <1>8 DEF PassBy, VersionInv, BaseInv, StoringFacts, TypeOK
  <2>2. Deliver(r, answer[r].version)
    BY <1>8 DEF PassBy
  <2>3. answer[r].version >= shown[Key[r]]
    BY <2>1 DEF VersionInv, FlightFacts
  <2> QED BY <2>1, <2>2, <2>3, ShownStep
<1>9. ASSUME NEW r \in Requests, NEW written \in BOOLEAN, NotModified(r,
  written) PROVE Monotone
  <2>1. body[Key[r]] \in 0 .. MaxVersion
    BY DEF VersionInv, BaseInv, TypeOK
  <2>2. Deliver(r, body[Key[r]]) \/ Fail(r)
    BY <1>9 DEF NotModified
  <2>3. body[Key[r]] # NoBody => body[Key[r]] >= shown[Key[r]]
    BY DEF VersionInv, FileFacts, NoBody, NoFile
  <2> QED BY <2>1, <2>2, <2>3, ShownStep
<1>10. ASSUME NEW r \in Requests, NEW written \in BOOLEAN, WriteBody(r,
  written) PROVE Monotone
  BY <1>10 DEF WriteBody, VersionInv, BaseInv, TypeOK, Monotone
<1>11. ASSUME NEW r \in Requests, NEW written \in BOOLEAN, WriteHeaders(r,
  written) PROVE Monotone
  <2>1. phase[r] = "answered" /\ answer[r].version \in 0 .. MaxVersion
    BY <1>11 DEF WriteHeaders, VersionInv, BaseInv, StoringFacts, TypeOK
  <2>2. Deliver(r, answer[r].version)
    BY <1>11 DEF WriteHeaders
  <2>3. answer[r].version >= shown[Key[r]]
    BY <2>1 DEF VersionInv, FlightFacts
  <2> QED BY <2>1, <2>2, <2>3, ShownStep
<1>12. ASSUME NEW k \in Keys, Change(k) PROVE Monotone
  BY <1>12 DEF Change, VersionInv, BaseInv, TypeOK, Monotone
<1>13. ASSUME NEW k \in Keys, GrowOld(k) PROVE Monotone
  BY <1>13 DEF GrowOld, VersionInv, BaseInv, TypeOK, Monotone
<1>14. ASSUME NEW k \in Keys, Invalidate(k) PROVE Monotone
  BY <1>14 DEF Invalidate, VersionInv, BaseInv, TypeOK, Monotone
<1>15. ASSUME NEW f \in Files, NEW k \in Keys, RemoveFile(f, k) PROVE Monotone
  BY <1>15 DEF RemoveFile, VersionInv, BaseInv, TypeOK, Monotone
<1>16. CASE Restart
  BY <1>16 DEF Restart, VersionInv, BaseInv, TypeOK, Monotone
<1>17. CASE UNCHANGED vars
  BY <1>17 DEF VersionInv, BaseInv, TypeOK, Monotone
<1> QED
  BY <1>1, <1>2, <1>3, <1>4, <1>5, <1>6, <1>7, <1>8, <1>9, <1>10, <1>11, <1>12,
    <1>13, <1>14, <1>15, <1>16, <1>17 DEF Next

\* What a 304 delivers.
Current ==
    \A r \in Requests :
        answer[r].status = 304 /\ got[r] = "nothing" /\ got'[r] = "loaded"
            => shown'[Key[r]] = answer[r].version

\* The body under a tag that the server has just confirmed is the one it means.
LEMMA ConfirmedBody ==
    ASSUME VersionInv, ~overlapped, ~writeFailed, NEW r \in Requests,
           answer[r].status = 304, pathForRequest(r), body[Key[r]] # NoBody,
           headers[Key[r]].version # NoFile
    PROVE  body[Key[r]] = answer[r].version /\ Policy[r] # {}
<1>1. phase[r] = "answered"
  BY DEF VersionInv, BaseInv, AnswerFacts, NoAnswer
<1>2. answer[r].version \in Versions /\ answer[r].version = tag[r]
  BY <1>1 DEF VersionInv, BaseInv, AnswerFacts
<1>3. tag[r] # NoTag
  BY <1>2, CacheAssumption DEF Versions, NoTag
<1>4. "Etag" \in Policy[r]
  BY <1>3 DEF VersionInv, BaseInv, AnswerFacts
<1>5. tag[r] = headers[Key[r]].version /\ answer[r].version >= body[Key[r]]
  BY <1>1, <1>3 DEF VersionInv, FlightFacts, InFlight
<1>6. body[Key[r]] >= headers[Key[r]].version
  BY CacheAssumption DEF VersionInv, FileFacts, NoBody, NoFile
<1>7. /\ body[Key[r]] \in Nat /\ headers[Key[r]].version \in Nat
      /\ answer[r].version \in Nat
  BY CacheAssumption DEF VersionInv, BaseInv, TypeOK
<1> QED BY <1>2, <1>4, <1>5, <1>6, <1>7

\* A request that ends with the body of its entry tells of no other.
LEMMA EndsCurrent ==
    ASSUME VersionInv, NEW r \in Requests, NEW v \in 0 .. MaxVersion,
           Deliver(r, v),
           answer[r].status = 304 /\ v # NoBody =>
              v = answer[r].version /\ pathForRequest(r) /\ Policy[r] # {}
    PROVE  Current
<1> SUFFICES ASSUME NEW q \in Requests, answer[q].status = 304,
                    got[q] = "nothing", got'[q] = "loaded"
             PROVE  shown'[Key[q]] = answer[q].version
  BY DEF Current
<1>1. q = r /\ v # NoBody
  BY DEF Deliver, End
<1>2. Key[r] \in Keys /\ shown \in [Keys -> 0 .. MaxVersion]
  BY CacheAssumption DEF VersionInv, BaseInv, TypeOK
<1> QED BY <1>1, <1>2 DEF Deliver

LEMMA FailsCurrent ==
    ASSUME NEW r \in Requests, Fail(r)
    PROVE  Current
BY DEF Fail, End, Current

LEMMA CurrentStep ==
    ASSUME VersionInv, ~overlapped, ~writeFailed, [Next]_vars
    PROVE  Current
<1> USE CacheAssumption DEF vars, fileVars, requestVars, mainVars, historyVars
<1>0. ASSUME NEW r \in Requests
      PROVE  body[Key[r]] \in 0 .. MaxVersion /\ answer[r].version \in 0 .. MaxVersion
  BY DEF VersionInv, BaseInv, TypeOK
<1>1. ASSUME NEW r \in Requests, LoadFromCache(r) PROVE Current
  <2>1. answer[r].status # 304
    BY <1>1 DEF LoadFromCache, VersionInv, BaseInv, AnswerFacts, NoAnswer
  <2> QED BY <1>0, <1>1, <2>1, EndsCurrent DEF LoadFromCache
<1>2. ASSUME NEW r \in Requests, Dispatch(r) PROVE Current
  BY <1>2 DEF Dispatch, Current
<1>3. ASSUME NEW r \in Requests, RefuseOffline(r) PROVE Current
  <2>1. answer[r].status # 304
    BY <1>3 DEF RefuseOffline, VersionInv, BaseInv, AnswerFacts, NoAnswer
  <2> QED BY <1>0, <1>3, <2>1, EndsCurrent, FailsCurrent DEF RefuseOffline
<1>4. ASSUME NEW r \in Requests, Reply(r) PROVE Current
  BY <1>4 DEF Reply, Current
<1>5. ASSUME NEW r \in Requests, ConnectionFails(r) PROVE Current
  <2>1. CASE Fail(r)
    BY <2>1, FailsCurrent
  <2>2. CASE hasResponse(r) /\ Deliver(r, body[Key[r]])
    <3>1. /\ pathForRequest(r) /\ body[Key[r]] # NoBody
          /\ headers[Key[r]].version # NoFile
      BY <2>2 DEF hasResponse, NoBody, NoFile
    <3>2. answer[r].status = 304 =>
             body[Key[r]] = answer[r].version /\ Policy[r] # {}
      BY <3>1, ConfirmedBody
    <3> QED BY <1>0, <2>2, <3>1, <3>2, EndsCurrent
  <2> QED BY <1>5, <2>1, <2>2 DEF ConnectionFails
<1>6. ASSUME NEW r \in Requests, ErrorStatus(r) PROVE Current
  BY <1>6, FailsCurrent DEF ErrorStatus
<1>7. ASSUME NEW r \in Requests, StartStore(r) PROVE Current
  BY <1>7 DEF StartStore, Current
<1>8. ASSUME NEW r \in Requests, PassBy(r) PROVE Current
  <2>1. answer[r].status # 304 /\ Deliver(r, answer[r].version)
    BY <1>8 DEF PassBy
  <2> QED BY <1>0, <2>1, EndsCurrent
<1>9. ASSUME NEW r \in Requests, NEW written \in BOOLEAN, NotModified(r,
  written) PROVE Current
  <2>1. CASE Fail(r)
    BY <2>1, FailsCurrent
  <2>2. CASE /\ pathForRequest(r) /\ headers[Key[r]].version # NoFile
             /\ Deliver(r, body[Key[r]])
    <3>1. answer[r].status = 304 /\ body[Key[r]] # NoBody =>
             body[Key[r]] = answer[r].version /\ Policy[r] # {}
      BY <2>2, ConfirmedBody
    <3> QED BY <1>0, <2>2, <3>1, EndsCurrent
  <2> QED BY <1>9, <2>1, <2>2 DEF NotModified
<1>10. ASSUME NEW r \in Requests, NEW written \in BOOLEAN, WriteBody(r,
  written) PROVE Current
  BY <1>10 DEF WriteBody, Current
<1>11. ASSUME NEW r \in Requests, NEW written \in BOOLEAN, WriteHeaders(r,
  written) PROVE Current
  <2>1. answer[r].status # 304 /\ Deliver(r, answer[r].version)
    BY <1>11 DEF WriteHeaders, VersionInv, BaseInv, StoringFacts
  <2> QED BY <1>0, <2>1, EndsCurrent
<1>12. ASSUME NEW k \in Keys, Change(k) PROVE Current
  BY <1>12 DEF Change, Current
<1>13. ASSUME NEW k \in Keys, GrowOld(k) PROVE Current
  BY <1>13 DEF GrowOld, Current
<1>14. ASSUME NEW k \in Keys, Invalidate(k) PROVE Current
  BY <1>14 DEF Invalidate, Current
<1>15. ASSUME NEW f \in Files, NEW k \in Keys, RemoveFile(f, k) PROVE Current
  BY <1>15 DEF RemoveFile, Current
<1>16. CASE Restart
  BY <1>16 DEF Restart, End, Current
<1>17. CASE UNCHANGED vars
  BY <1>17 DEF Current
<1> QED
  BY <1>1, <1>2, <1>3, <1>4, <1>5, <1>6, <1>7, <1>8, <1>9, <1>10, <1>11, <1>12,
    <1>13, <1>14, <1>15, <1>16, <1>17 DEF Next

-----------------------------------------------------------------------------
(* The theorems.                                                           *)

\* Types are kept, and the main thread stores one response at a time.
THEOREM TypeCorrect == Spec => []TypeOK
<1>1. BaseInv => TypeOK
  BY DEF BaseInv
<1> QED
  BY <1>1, BaseInit, BaseStep, PTL DEF Spec

\* Without a death inside a handler and a failed write, RKRequestCache holds
\* both files of one response or none, however answers overtake each other.
THEOREM EntriesAreWhole == Spec => []EntryWhole
<1>1. WholeInv => EntryWhole
  BY DEF WholeInv, WholeFacts, InRemoval, EntryWhole, Idle, BaseInv, TypeOK
<1> QED
  BY <1>1, WholeInit, WholeInvStep, PTL DEF Spec

\* A 304 delivers a success without a body only after such a fault.
THEOREM HollowIsAFault == Spec => []HollowOnlyAfterFault
<1>1. WholeInv => HollowOnlyAfterFault
  BY DEF WholeInv
<1> QED
  BY <1>1, WholeInit, WholeInvStep, PTL DEF Spec

\* Without overlapping requests and failed writes, the cache date vouches for the
\* body it stands next to, deaths between any two steps included.
THEOREM DatesAreHonest == Spec => []DateIsHonest
<1>1. VersionInv => DateIsHonest
  <2> SUFFICES ASSUME VersionInv, ~overlapped, ~writeFailed, NEW k \in Keys,
                      body[k] # NoFile, headers[k].version # NoFile
               PROVE  body[k] >= headers[k].checked
    BY DEF DateIsHonest
  <2>1. /\ body[k] \in Nat /\ headers[k].version \in Nat
        /\ headers[k].checked \in Nat
    BY CacheAssumption DEF VersionInv, BaseInv, TypeOK
  <2>2. /\ body[k] >= headers[k].version
        /\ headers[k].checked <= headers[k].version
    BY DEF VersionInv, FileFacts
  <2> QED BY <2>1, <2>2
<1> QED
  BY <1>1, VersionInit, VersionStep, PTL DEF Spec

\* Under the same conditions no reader of a resource sees it go back.
THEOREM ReadsAreMonotone == Spec => MonotoneReads
<1>1. VersionInv /\ [Next]_vars
        => [~overlapped /\ ~writeFailed' =>
              \A k \in Keys : shown'[k] >= shown[k]]_vars
  <2> SUFFICES ASSUME VersionInv, [Next]_vars, ~overlapped, ~writeFailed'
               PROVE  \A k \in Keys : shown'[k] >= shown[k]
    OBVIOUS
  <2>1. ~writeFailed
    BY FaultsStay DEF VersionInv, BaseInv, FaultsKept
  <2> QED
    BY <2>1, MonotoneStep DEF Monotone
<1> QED
  BY <1>1, VersionInit, VersionStep, PTL DEF Spec, MonotoneReads

\* Under the same conditions the body that RKRequestCache delivers for a 304 is
\* the version the server has just said is current, whatever deaths and
\* removals lay between reading the tag and reading the body.
THEOREM RevalidationIsCurrent == Spec => RevalidatedIsCurrent
<1>1. VersionInv /\ [Next]_vars
        => [\A r \in Requests :
              /\ ~overlapped /\ ~writeFailed
              /\ answer[r].status = 304
              /\ got[r] = "nothing" /\ got'[r] = "loaded"
              => shown'[Key[r]] = answer[r].version]_vars
  BY CurrentStep DEF Current
<1> QED
  BY <1>1, VersionInit, VersionStep, PTL DEF Spec, RevalidatedIsCurrent
=============================================================================
