-------------------------- MODULE ClientMetadataCache --------------------------
(* Metadata documents of clients named by their URL (client_metadata.py):   *)
(* an authorization request loads the document over the network, it is kept *)
(* for a while in the process, and its owner may replace it at any time,    *)
(* also while it is being read. What the request does with the document is  *)
(* AuthorizeLogin.                                                          *)
EXTENDS Filtering, Naturals, Sequences, SequencesExt, FiniteSets

CONSTANTS
    Clients,     \* the URLs
    Requests,    \* authorization requests
    Lifetime,    \* CACHE_SECONDS
    FetchLimit,  \* FETCH_TIMEOUT_SECONDS
    MaxEntries   \* CACHE_MAX_ENTRIES

ASSUME MetadataAssumption ==
    Lifetime \in Nat \ {0} /\ FetchLimit \in Nat \ {0} /\ MaxEntries \in Nat \ {0}

VARIABLES
    cache,    \* _cache in its order: client, rest of the lifetime, document
    request   \* request[r]: what it does, for whom, with which document

metadataVars == <<cache, request>>

(* A document as it was read: whether it is still the one at the URL, and   *)
(* if not, how long ago it was replaced (history, counted to one beyond     *)
(* what StalenessBounded allows; no action reads it).                       *)
Documents == [current : BOOLEAN, stale : 0..Lifetime + FetchLimit + 1]
Latest == [current |-> TRUE, stale |-> 0]

Cached == [client : Clients, left : 0..Lifetime, document : Documents]

(* `left` is what remains of the time limit of the download.                *)
Steps == {"new", "fetching", "received", "loaded", "done", "refused"}
RequestStates == [step : Steps, client : Clients, left : 0..FetchLimit,
                  document : Documents]

MetadataTypeOK ==
    /\ cache \in Seq(Cached)
    /\ request \in [Requests -> RequestStates]

MetadataInit ==
    /\ cache = <<>>
    /\ request \in [Requests -> [step : {"new"}, client : Clients, left : {0},
                                 document : {Latest}]]

-------------------------------------------------------------------------------

OfClient(c) == {i \in DOMAIN cache : cache[i].client = c}
\* Slip: the lifetime of an entry is not looked at.
UsableEver(c) == OfClient(c)

Usable(c) == {i \in OfClient(c) : cache[i].left > 0}

GoesOn(r, step, left, document) ==
    request' = [request EXCEPT ![r] = [step |-> step, client |-> request[r].client,
                                       left |-> left, document |-> document]]

(* load_client_metadata(): an entry that lives is the answer; otherwise the *)
(* name is checked and resolved and the document asked for.                 *)
Load(r) ==
    LET c == request[r].client
    IN /\ request[r].step = "new"
       /\ \/ \E i \in Usable(c) : GoesOn(r, "loaded", 0, cache[i].document)
          \/ Usable(c) = {} /\ GoesOn(r, "fetching", FetchLimit, Latest)
       /\ UNCHANGED cache

(* The owner's server answers with the document of that moment.             *)
Serve(r) ==
    /\ request[r].step = "fetching"
    /\ GoesOn(r, "received", request[r].left, Latest)
    /\ UNCHANGED cache

(* The whole of it has come and is a document of this client: in one step   *)
(* an older entry goes, the first one of a full cache too, and it is kept.  *)
Keep(c, document) ==
    LET others == Filter(cache, {e \in ToSet(cache) : e.client # c})
        room == IF Len(others) >= MaxEntries THEN Tail(others) ELSE others
    IN Append(room, [client |-> c, left |-> Lifetime, document |-> document])

Store(r) ==
    /\ request[r].step = "received"
    /\ cache' = Keep(request[r].client, request[r].document)
    /\ GoesOn(r, "loaded", 0, request[r].document)

(* The URL, DNS, the network, the time limit, or a document that does not   *)
(* describe this client: there is no client, and nothing is kept.           *)
Fail(r) ==
    /\ request[r].step \in {"fetching", "received"}
    /\ GoesOn(r, "refused", 0, Latest)
    /\ UNCHANGED cache

(* The request goes on with what it loaded.                                 *)
Use(r) ==
    /\ request[r].step = "loaded"
    /\ GoesOn(r, "done", 0, Latest)
    /\ UNCHANGED cache

(* The owner replaces the document.                                         *)
Replaced(document) == [document EXCEPT !.current = FALSE]
Publish(c) ==
    /\ cache' = [i \in DOMAIN cache |->
                   IF cache[i].client = c
                   THEN [cache[i] EXCEPT !.document = Replaced(@)] ELSE cache[i]]
    /\ request' = [r \in Requests |->
                     IF request[r].client = c /\ request[r].step = "received"
                     THEN [request[r] EXCEPT !.document = Replaced(@)] ELSE request[r]]

(* A second passes. No download outlives its limit, and what was loaded is  *)
(* used within the second.                                                  *)
Older(document) == IF document.current \/ document.stale > Lifetime + FetchLimit
                   THEN document ELSE [document EXCEPT !.stale = @ + 1]
Fetching(r) == request[r].step \in {"fetching", "received"}
Tick ==
    /\ \A r \in Requests : Fetching(r) => request[r].left > 0
    /\ \A r \in Requests : request[r].step # "loaded"
    /\ cache' = [i \in DOMAIN cache |->
                   [cache[i] EXCEPT !.left = IF @ = 0 THEN 0 ELSE @ - 1,
                                    !.document = Older(@)]]
    /\ request' = [r \in Requests |->
                     IF Fetching(r) THEN [request[r] EXCEPT !.left = @ - 1, !.document = Older(@)]
                     ELSE request[r]]

MetadataNext ==
    \/ \E r \in Requests : Load(r) \/ Serve(r) \/ Store(r) \/ Fail(r) \/ Use(r)
    \/ \E c \in Clients : Publish(c)
    \/ Tick

MetadataSpec == MetadataInit /\ [][MetadataNext]_metadataVars

-------------------------------------------------------------------------------

(* What the process serves is never older than its limits promise: a        *)
(* request goes by a document that was at the URL at most a lifetime and a  *)
(* download ago, although two downloads of one client may be stored in the  *)
(* other order; no client has two entries, and there are never more than    *)
(* MaxEntries.                                                              *)
StalenessBounded ==
    /\ \A r \in Requests : request[r].step = "loaded" =>
          request[r].document.stale <= Lifetime + FetchLimit
    /\ Len(cache) <= MaxEntries
    /\ \A c \in Clients : Cardinality(OfClient(c)) <= 1
===============================================================================
