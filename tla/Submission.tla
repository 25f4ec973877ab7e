----------------------------- MODULE Submission -----------------------------
(***************************************************************************)
(* How concurrent roundtrips turn a notification into a signed HTTP        *)
(* request (submit in streamer.go, up to the call of the HTTP client).     *)
(* Three things are shared between them and cached without a lock around   *)
(* the work: the HTTP form of a Header (notification.go), the JSON form of *)
(* a Payload (payload.go) and the provider token (JWTSigner).              *)
(*                                                                         *)
(* A JSON dictionary "aps" is a function from its keys to who set them:    *)
(* "raw" for the application, or the payload whose APS did.  There are the *)
(* application's own maps, and one each roundtrip makes for itself.        *)
(* Marshalling a payload with an APS writes into the application's map if  *)
(* Raw has one under "aps", and reads it back; a Go map that is written    *)
(* while another goroutine uses it may bring the process down.             *)
(***************************************************************************)
EXTENDS JWTSigner, FiniteSets

CONSTANTS
    Payloads,   \* the payloads in use; each roundtrip sends one of them
    Keys,       \* keys of "aps" dictionaries
    APSKeys,    \* [Payloads -> SUBSET Keys]: what Payload.APS sets
    NoAPS,      \* the payloads whose APS is nil
    Maps,       \* "aps" maps of the application
    ApsMap,     \* [Payloads -> Maps \cup {Fresh}]: Raw["aps"]
    Fresh,      \* Raw has no map under "aps"
    RawKeys,    \* [Maps -> SUBSET Keys]: what the application put there
    Bytes,      \* the payloads that are bytes or a string already
    Fields,     \* the routing fields the shared Header has
    None        \* an empty cache, or a part of a request not yet written

Roundtrips == Callers

ASSUME PayloadsAssumption ==
    /\ APSKeys \in [Payloads -> SUBSET Keys]
    /\ ApsMap \in [Payloads -> Maps \cup {Fresh}]
    /\ RawKeys \in [Maps -> SUBSET Keys]
    /\ Fresh \notin Maps
    /\ Maps \cap Roundtrips = {}
    /\ NoAPS \subseteq Payloads /\ Bytes \subseteq Payloads
    /\ \A p \in NoAPS : APSKeys[p] = {}

VARIABLES
    spc,          \* progress of each roundtrip in submit
    payload,      \* the payload it sends
    httpHeaders,  \* Header.httpHeaders
    headers,      \* the routing headers of its request
    json,         \* Payload.json
    body,         \* the body of its request
    apsMap,       \* contents of the maps
    crashed       \* the map in which the runtime found two goroutines

evars == <<spc, payload, httpHeaders, headers, json, body, apsMap, crashed>>
vars == <<svars, evars>>

SubmitPC == {"idle", "header", "storeHeader", "payload", "merging",
             "marshal", "storeJSON", "sign", "signing", "sent", "failed"}

Absent == "absent"
RawMap(m) == [k \in Keys |-> IF k \in RawKeys[m] THEN "raw" ELSE Absent]
EmptyMap == [k \in Keys |-> Absent]

\* Where a map can be: with the application, in a payload, or in a roundtrip.
Cells == Maps \cup Payloads \cup Roundtrips

Init ==
    /\ SignerInit
    /\ spc = [r \in Roundtrips |-> "idle"]
    /\ payload = [r \in Roundtrips |-> None]
    /\ httpHeaders = None
    /\ headers = [r \in Roundtrips |-> None]
    /\ json = [p \in Payloads |-> None]
    /\ body = [r \in Roundtrips |-> None]
    /\ apsMap = [m \in Cells |-> IF m \in Maps THEN RawMap(m) ELSE EmptyMap]
    /\ crashed = None

-----------------------------------------------------------------------------
Goto(r, pc) == spc' = [spc EXCEPT ![r] = pc]

\* http.NewRequest succeeds, and Notification.write is entered.
NewRequest(r, p) ==
    /\ spc[r] = "idle"
    /\ Goto(r, "header")
    /\ payload' = [payload EXCEPT ![r] = p]
    /\ UNCHANGED <<svars, httpHeaders, headers, json, body, apsMap, crashed>>

\* http.NewRequest refuses the recipient.
NewRequestFails(r) ==
    /\ spc[r] = "idle"
    /\ Goto(r, "failed")
    /\ UNCHANGED <<svars, payload, httpHeaders, headers, json, body, apsMap,
                   crashed>>

\* getHTTPHeaders: the cached headers, or they are collected anew.
LoadHeader(r) ==
    /\ spc[r] = "header"
    /\ IF httpHeaders # None
       THEN Goto(r, "payload") /\ headers' = [headers EXCEPT ![r] = httpHeaders]
       ELSE Goto(r, "storeHeader") /\ UNCHANGED headers
    /\ UNCHANGED <<svars, payload, httpHeaders, json, body, apsMap, crashed>>

\* Mutant: the list is stored before the fields are appended to it.
StoreHeaderEarly(r) ==
    /\ spc[r] = "storeHeader"
    /\ httpHeaders' = {}
    /\ headers' = [headers EXCEPT ![r] = Fields]
    /\ Goto(r, "payload")
    /\ UNCHANGED <<svars, payload, json, body, apsMap, crashed>>

StoreHeader(r) ==
    /\ spc[r] = "storeHeader"
    /\ httpHeaders' = Fields
    /\ headers' = [headers EXCEPT ![r] = Fields]
    /\ Goto(r, "payload")
    /\ UNCHANGED <<svars, payload, json, body, apsMap, crashed>>

\* newPayloadReader and the first lines of MarshalJSON: nothing to encode, the
\* cached encoding, or a new one, for which an APS is merged first.
LoadJSON(r) ==
    LET p == payload[r]
    IN  /\ spc[r] = "payload"
        /\ IF p \in Bytes
           THEN Goto(r, "sign") /\ body' = [body EXCEPT ![r] = EmptyMap]
           ELSE IF json[p] # None
           THEN Goto(r, "sign") /\ body' = [body EXCEPT ![r] = json[p]]
           ELSE /\ Goto(r, IF p \in NoAPS THEN "marshal" ELSE "merging")
                /\ UNCHANGED body
        /\ UNCHANGED <<svars, payload, httpHeaders, headers, json, apsMap,
                       crashed>>

\* addToMap
AddToMap(p, m) == [k \in Keys |-> IF k \in APSKeys[p] THEN p ELSE m[k]]

\* res["aps"]: the application's map, or one that nobody else has.
MergeTarget(r) == IF ApsMap[payload[r]] # Fresh THEN ApsMap[payload[r]] ELSE r

\* mergedMap: the fields of APS go into the map, which is new if the
\* application gave none.
Merge(r) ==
    LET p == payload[r]
        t == MergeTarget(r)
    IN  /\ spc[r] = "merging"
        /\ apsMap' = [apsMap EXCEPT
              ![t] = AddToMap(p, IF ApsMap[p] # Fresh THEN @ ELSE EmptyMap)]
        /\ Goto(r, "marshal")
        /\ UNCHANGED <<svars, payload, httpHeaders, headers, json, body,
                       crashed>>

\* r is about to write to a map, or to write or read it.
Writes(r, m) == spc[r] = "merging" /\ MergeTarget(r) = m
Uses(r, m) == spc[r] \in {"merging", "marshal"} /\ MergeTarget(r) = m

\* "fatal error: concurrent map writes", if the runtime notices.
MapFault(r) ==
    /\ \E x \in Roundtrips \ {r}, m \in Cells :
          /\ Writes(r, m) /\ Uses(x, m)
          /\ crashed' = m
    /\ UNCHANGED <<svars, spc, payload, httpHeaders, headers, json, body,
                   apsMap>>

\* json.Marshal of the merged map, or of Raw as it is.
Marshal(r) ==
    LET p == payload[r]
    IN  /\ spc[r] = "marshal"
        /\ body' = [body EXCEPT ![r] =
              IF p \in NoAPS /\ ApsMap[p] = Fresh THEN EmptyMap
              ELSE apsMap[MergeTarget(r)]]
        /\ Goto(r, "storeJSON")
        /\ UNCHANGED <<svars, payload, httpHeaders, headers, json, apsMap,
                       crashed>>

\* json.Marshal fails: nothing is cached.
MarshalFails(r) ==
    /\ spc[r] = "marshal"
    /\ Goto(r, "failed")
    /\ UNCHANGED <<svars, payload, httpHeaders, headers, json, body, apsMap,
                   crashed>>

StoreJSON(r) ==
    /\ spc[r] = "storeJSON"
    /\ json' = [json EXCEPT ![payload[r]] = body[r]]
    /\ Goto(r, "sign")
    /\ UNCHANGED <<svars, payload, httpHeaders, headers, body, apsMap, crashed>>

-----------------------------------------------------------------------------
(* Signing *)

\* There is no signer, or it is NoSigner.
SignNothing(r) ==
    /\ spc[r] = "sign"
    /\ Goto(r, "sent")
    /\ UNCHANGED <<svars, payload, httpHeaders, headers, json, body, apsMap,
                   crashed>>

SignRequest(r) ==
    /\ spc[r] = "sign"
    /\ GetToken(r)
    /\ Goto(r, "signing")
    /\ UNCHANGED <<payload, httpHeaders, headers, json, body, apsMap, crashed>>

\* The Authorization header is set, or the error is returned.
SignRequestReturns(r) ==
    /\ spc[r] = "signing" /\ gpc[r] \in {"served", "failed"}
    /\ Goto(r, IF gpc[r] = "served" THEN "sent" ELSE "failed")
    /\ UNCHANGED <<svars, payload, httpHeaders, headers, json, body, apsMap,
                   crashed>>

-----------------------------------------------------------------------------
Next ==
    /\ crashed = None
    /\ \/ TimePasses /\ UNCHANGED evars
       \/ \E r \in Roundtrips :
            \/ \E p \in Payloads : NewRequest(r, p)
            \/ NewRequestFails(r)
            \/ LoadHeader(r) \/ StoreHeader(r)
            \/ LoadJSON(r) \/ Merge(r) \/ MapFault(r)
            \/ Marshal(r) \/ MarshalFails(r) \/ StoreJSON(r)
            \/ SignNothing(r) \/ SignRequest(r) \/ SignRequestReturns(r)
            \/ InGetToken(r) /\ UNCHANGED evars

Spec == Init /\ [][Next]_vars

-----------------------------------------------------------------------------
\* Two payloads were made from one Raw: both write into its "aps" map.
SharesRaw(p) ==
    \E q \in Payloads \ {p} : ApsMap[p] # Fresh /\ ApsMap[q] = ApsMap[p]

\* What the payload says by itself.
Encoding(p) ==
    IF p \in Bytes THEN EmptyMap
    ELSE AddToMap(p, IF ApsMap[p] = Fresh THEN EmptyMap ELSE RawMap(ApsMap[p]))

\* Whoever filled the caches, and however many roundtrips raced to do so, a request
\* that is sent carries all its routing headers and exactly its own payload's
\* dictionary, unless two payloads were made from the same Raw map.
SentAsWritten ==
    \A r \in Roundtrips :
        spc[r] = "sent" =>
            /\ headers[r] = Fields
            /\ SharesRaw(payload[r]) \/ body[r] = Encoding(payload[r])

-----------------------------------------------------------------------------
(* What the documentation promises and the code does not keep *)

\* "The same payload can then be sent to any number of recipients"
\* (payload.go): roundtrips that all send one payload, encoding it at the same
\* time as MarshalJSON allows, do not bring the process down.
OnePayloadForMany ==
    (\A r, x \in Roundtrips : payload[r] = payload[x]) => crashed = None

=============================================================================
