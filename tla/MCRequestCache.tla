--------------------------- MODULE MCRequestCache ---------------------------
(***************************************************************************)
(* Instances of RequestCache: requests for one resource under different    *)
(* cache policies.                                                         *)
(***************************************************************************)
EXTENDS RequestCache

CONSTANTS r1, r2, r3, url

MCRequests == {r1, r2, r3}
MCKey == [r \in MCRequests |-> url]

\* r1, r2: the default of RKClient.  r3: the policies that prefer the cache or
\* fall back on it.
MCPolicy ==
    [r \in MCRequests |->
        IF r = r3 THEN {"Enabled", "LoadIfOffline", "LoadOnError"}
        ELSE {"Etag", "Timeout"}]
=============================================================================
