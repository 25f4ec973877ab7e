-------------------------- MODULE SubmissionProofs --------------------------
(***************************************************************************)
(* Proofs about the token signer, by itself and as the roundtrips use it.  *)
(* A token is only made by the holder of mu, which has looked at the cache *)
(* after it took mu: SignerInv says so, and that the life span, once       *)
(* settled, stays.                                                         *)
(*                                                                         *)
(* The second part is about the caches of headers and of encodings: the    *)
(* roundtrips race to fill them, and whichever wins stores what the others *)
(* would have stored (EncodeInv).                                          *)
(***************************************************************************)
EXTENDS Submission, TLAPS

USE LifeSpanAssumption, TimeAssumption, SignerNamesAssumption
  DEF LifeSpanAssumption, TimeAssumption, SignerNamesAssumption

InMu(c) == gpc[c] \in {"check", "sign"}

SignerInv ==
    /\ SignerTypeOK
    /\ \A c \in Callers : InMu(c) => mu = c
    /\ \A c \in Callers :
         gpc[c] = "sign" => ~ValidFor(c) /\ tokenLifeSpan = LifeSpan
    /\ tokenLifeSpan \in {0, LifeSpan}

LEMMA LifeSpanType == LifeSpan \in Nat \ {0}
  BY DEF LifeSpan

LEMMA SignerTypeStep ==
    ASSUME SignerTypeOK, [SignerNext]_svars
    PROVE  SignerTypeOK'
<1> USE DEF SignerTypeOK, GetTokenPC
<1>1. CASE TimePasses
  BY <1>1 DEF TimePasses
<1>2. ASSUME NEW c \in Callers, GetToken(c)
      PROVE  SignerTypeOK'
  BY <1>2 DEF GetToken
<1>3. ASSUME NEW c \in Callers, Load(c)
      PROVE  SignerTypeOK'
  BY <1>3 DEF Load, Return
<1>4. ASSUME NEW c \in Callers, Lock(c)
      PROVE  SignerTypeOK'
  BY <1>4 DEF Lock
<1>5. ASSUME NEW c \in Callers, Check(c)
      PROVE  SignerTypeOK'
  BY <1>5 DEF Check, Return
<1>6. ASSUME NEW c \in Callers, Sign(c)
      PROVE  SignerTypeOK'
  <2>1. [iat |-> now[c], exp |-> now[c] + tokenLifeSpan] \in Token
    BY DEF Token
  <2> QED
    BY <1>6, <2>1 DEF Sign
<1>7. ASSUME NEW c \in Callers, SignFails(c)
      PROVE  SignerTypeOK'
  BY <1>7 DEF SignFails
<1>8. CASE UNCHANGED svars
  BY <1>8 DEF svars
<1> QED
  BY <1>1, <1>2, <1>3, <1>4, <1>5, <1>6, <1>7, <1>8 DEF SignerNext, InGetToken

LEMMA SignerStep ==
    ASSUME SignerInv, [SignerNext]_svars
    PROVE  SignerInv'
<1>0. SignerTypeOK'
  BY SignerTypeStep DEF SignerInv
<1> USE <1>0 DEF SignerInv, SignerTypeOK, InMu, ValidFor
<1>1. CASE TimePasses
  BY <1>1 DEF TimePasses
<1>2. ASSUME NEW c \in Callers, GetToken(c)
      PROVE  SignerInv'
  BY <1>2 DEF GetToken
<1>3. ASSUME NEW c \in Callers, Load(c)
      PROVE  SignerInv'
  BY <1>3 DEF Load, Return
<1>4. ASSUME NEW c \in Callers, Lock(c)
      PROVE  SignerInv'
  BY <1>4 DEF Lock
<1>5. ASSUME NEW c \in Callers, Check(c)
      PROVE  SignerInv'
  BY <1>5, LifeSpanType DEF Check, Return, LifeSpan
<1>6. ASSUME NEW c \in Callers, Sign(c)
      PROVE  SignerInv'
  BY <1>6 DEF Sign
<1>7. ASSUME NEW c \in Callers, SignFails(c)
      PROVE  SignerInv'
  BY <1>7 DEF SignFails
<1>8. CASE UNCHANGED svars
  BY <1>8 DEF svars
<1> QED
  BY <1>1, <1>2, <1>3, <1>4, <1>5, <1>6, <1>7, <1>8 DEF SignerNext, InGetToken

LEMMA SignerInvariance == SignerSpec => []SignerInv
<1>1. SignerInit => SignerInv
  BY DEF SignerInit, SignerInv, SignerTypeOK, InMu, GetTokenPC
<1> QED
  BY <1>1, SignerStep, PTL DEF SignerSpec

-----------------------------------------------------------------------------
(* What the signer promises *)

\* For any number of concurrent callers and any life span, a token is replaced
\* only by one made when it had expired (GetToken).
THEOREM SignerSpacesTokens == SignerSpec => TokensSpaced
<1> DEFINE Spaced == currentToken' # currentToken =>
                       \/ currentToken = NoToken
                       \/ currentToken'.iat >= currentToken.exp
<1>1. ASSUME SignerInv, [SignerNext]_svars
      PROVE  Spaced
  <2>1. ASSUME NEW c \in Callers, Sign(c)
        PROVE  Spaced
    BY <1>1, <2>1 DEF Sign, SignerInv, SignerTypeOK, ValidFor, Token
  <2> QED
    BY <1>1, <2>1 DEF SignerNext, InGetToken, TimePasses, GetToken, Load,
       Lock, Check, SignFails, svars
<1> QED
  BY <1>1, SignerInvariance, PTL DEF SignerSpec, TokensSpaced

\* Every step of the signer is one of the token source, or changes nothing there.
LEMMA AbstractStep ==
    ASSUME SignerInv, [SignerNext]_svars
    PROVE  [Abstract!Next]_(Abstract!tvars)
<1> USE DEF SignerInv, SignerTypeOK
<1>1. CASE TimePasses
  BY <1>1 DEF TimePasses, Abstract!Next, Abstract!Pass
<1>2. ASSUME NEW c \in Callers, GetToken(c)
      PROVE  Abstract!Ask(c)
  BY <1>2 DEF GetToken, Abstract!Ask
<1>3. ASSUME NEW c \in Callers, Load(c)
      PROVE  Abstract!Reuse(c) \/ UNCHANGED Abstract!tvars
  BY <1>3 DEF Load, Return, ValidFor, Abstract!Reuse, Abstract!Good,
     Abstract!tvars
<1>4. ASSUME NEW c \in Callers, Lock(c)
      PROVE  UNCHANGED Abstract!tvars
  BY <1>4 DEF Lock, Abstract!tvars
<1>5. ASSUME NEW c \in Callers, Check(c)
      PROVE  Abstract!Reuse(c) \/ UNCHANGED Abstract!tvars
  BY <1>5 DEF Check, Return, ValidFor, Abstract!Reuse, Abstract!Good,
     Abstract!tvars
<1>6. ASSUME NEW c \in Callers, Sign(c)
      PROVE  Abstract!Issue(c)
  BY <1>6 DEF Sign, ValidFor, Abstract!Issue, Abstract!Good, Abstract!Made
<1>7. ASSUME NEW c \in Callers, SignFails(c)
      PROVE  Abstract!Refuse(c)
  BY <1>7 DEF SignFails, ValidFor, Abstract!Refuse, Abstract!Good
<1>8. CASE UNCHANGED svars
  BY <1>8 DEF svars, Abstract!tvars
<1> QED
  BY <1>1, <1>2, <1>3, <1>4, <1>5, <1>6, <1>7, <1>8
     DEF SignerNext, InGetToken, Abstract!Next

\* GetToken with its two looks at the cache implements a token source whose
\* calls take effect one at a time.
THEOREM SignerImplementsTokenSource == SignerSpec => ImplementsTokenSource
<1>1. SignerInit => Abstract!Init
  BY DEF SignerInit, Abstract!Init
<1> QED
  BY <1>1, AbstractStep, SignerInvariance, PTL
     DEF SignerSpec, ImplementsTokenSource, Abstract!Spec

-----------------------------------------------------------------------------
(* The signer among the roundtrips *)

\* A roundtrip touches the signer's state only by the signer's own steps.
THEOREM SubmissionImplementsSigner == Spec => SignerSpec
<1>1. Init => SignerInit
  BY DEF Init
<1>2. ASSUME [Next]_vars
      PROVE  [SignerNext]_svars
  <2>1. ASSUME NEW r \in Roundtrips, SignRequest(r)
        PROVE  SignerNext
    BY <2>1 DEF SignRequest, SignerNext, Roundtrips
  <2>2. ASSUME NEW r \in Roundtrips, InGetToken(r)
        PROVE  SignerNext
    BY <2>2 DEF SignerNext, Roundtrips
  <2>3. CASE TimePasses
    BY <2>3 DEF SignerNext
  <2>4. ASSUME NEW r \in Roundtrips,
               \/ \E p \in Payloads : NewRequest(r, p)
               \/ NewRequestFails(r) \/ LoadHeader(r) \/ StoreHeader(r)
               \/ LoadJSON(r) \/ Merge(r) \/ MapFault(r) \/ Marshal(r)
               \/ MarshalFails(r) \/ StoreJSON(r) \/ SignNothing(r)
               \/ SignRequestReturns(r)
        PROVE  UNCHANGED svars
    BY <2>4 DEF NewRequest, NewRequestFails, LoadHeader, StoreHeader,
       LoadJSON, Merge, MapFault, Marshal, MarshalFails, StoreJSON,
       SignNothing, SignRequestReturns
  <2>5. CASE UNCHANGED vars
    BY <2>5 DEF vars
  <2> QED
    BY <1>2, <2>1, <2>2, <2>3, <2>4, <2>5 DEF Next
<1> QED
  BY <1>1, <1>2, PTL DEF Spec, SignerSpec

\* So what the signer promises holds among the roundtrips too.
THEOREM RoundtripsSpaceTokens == Spec => TokensSpaced /\ ImplementsTokenSource
  BY SubmissionImplementsSigner, SignerSpacesTokens,
     SignerImplementsTokenSource, PTL

-----------------------------------------------------------------------------
(***************************************************************************)
(* The caches.  An application's map that one payload alone merges into is *)
(* as the application made it, or has that payload's APS in it; merging    *)
(* again changes nothing.  The map a roundtrip made is its own.            *)
(***************************************************************************)
\* What merging makes of the payload's dictionary.
Merged(p) ==
    AddToMap(p, IF ApsMap[p] = Fresh THEN EmptyMap ELSE RawMap(ApsMap[p]))

Dictionary == [Keys -> Payloads \cup {"raw", Absent}]

EncodeType ==
    /\ spc \in [Roundtrips -> SubmitPC]
    /\ payload \in [Roundtrips -> Payloads \cup {None}]
    /\ headers \in [Roundtrips -> {None, Fields}]
    /\ json \in [Payloads -> Dictionary \cup {None}]
    /\ body \in [Roundtrips -> Dictionary \cup {None}]
    /\ apsMap \in [Cells -> Dictionary]

HasBody == {"storeJSON", "sign", "signing", "sent"}
HasHeaders == {"payload", "merging", "marshal"} \cup HasBody

\* A roundtrip that is this far has done what comes before.
RoundInv(r) ==
    /\ spc[r] \notin {"idle", "failed"} => payload[r] \in Payloads
    /\ spc[r] = "merging" => payload[r] \notin NoAPS
    /\ spc[r] \in {"merging", "marshal", "storeJSON"} => payload[r] \notin Bytes
    /\ spc[r] \in HasHeaders => headers[r] = Fields
    /\ spc[r] = "marshal" =>
         \/ payload[r] \in NoAPS \/ SharesRaw(payload[r])
         \/ apsMap[MergeTarget(r)] = Merged(payload[r])
    /\ spc[r] \in HasBody =>
         SharesRaw(payload[r]) \/ body[r] = Encoding(payload[r])

\* What a cache or a map holds for a payload that shares its Raw with no other.
CacheInv(p) ==
    SharesRaw(p) \/ /\ json[p] \in {None, Encoding(p)}
                    /\ \/ ApsMap[p] = Fresh
                       \/ apsMap[ApsMap[p]] \in {RawMap(ApsMap[p]), Merged(p)}

EncodeInv ==
    /\ EncodeType
    /\ httpHeaders \in {None, Fields}
    /\ \A r \in Roundtrips : RoundInv(r)
    /\ \A p \in Payloads : CacheInv(p)

LEMMA DictionaryTypes ==
    /\ EmptyMap \in Dictionary
    /\ \A x \in Maps : RawMap(x) \in Dictionary
    /\ \A p \in Payloads, f \in Dictionary : AddToMap(p, f) \in Dictionary
<1>1. EmptyMap \in Dictionary
  BY DEF EmptyMap, Dictionary
<1>2. ASSUME NEW x \in Maps PROVE RawMap(x) \in Dictionary
  BY DEF RawMap, Dictionary
<1>3. ASSUME NEW p \in Payloads, NEW f \in Dictionary
      PROVE  AddToMap(p, f) \in Dictionary
  BY DEF AddToMap, Dictionary
<1> QED
  BY <1>1, <1>2, <1>3

\* Merging twice is merging once, and merging nothing leaves Raw as it is.
LEMMA MergedFacts ==
    ASSUME NEW p \in Payloads
    PROVE  /\ Merged(p) \in Dictionary
           /\ AddToMap(p, Merged(p)) = Merged(p)
           /\ p \in NoAPS => Merged(p) = IF ApsMap[p] = Fresh THEN EmptyMap
                                         ELSE RawMap(ApsMap[p])
           /\ Encoding(p) = IF p \in Bytes THEN EmptyMap ELSE Merged(p)
           /\ Encoding(p) \in Dictionary
<1> DEFINE base == IF ApsMap[p] = Fresh THEN EmptyMap ELSE RawMap(ApsMap[p])
<1>1. ApsMap[p] = Fresh \/ ApsMap[p] \in Maps
  BY PayloadsAssumption DEF PayloadsAssumption
<1>2. base \in Dictionary
  BY <1>1, DictionaryTypes
<1>3. Merged(p) = AddToMap(p, base)
  BY DEF Merged
<1> HIDE DEF base
<1>4. Merged(p) \in Dictionary
  BY <1>2, <1>3, DictionaryTypes
<1>5. AddToMap(p, AddToMap(p, base)) = AddToMap(p, base)
  BY DEF AddToMap
<1>6. p \in NoAPS => AddToMap(p, base) = base
  BY <1>2, PayloadsAssumption DEF PayloadsAssumption, AddToMap, Dictionary
<1>7. Encoding(p) = IF p \in Bytes THEN EmptyMap ELSE Merged(p)
  BY DEF Encoding, Merged
<1> QED
  BY <1>3, <1>4, <1>5, <1>6, <1>7, DictionaryTypes DEF base

\* A step of one roundtrip that leaves the maps alone.
LEMMA OwnStep ==
    ASSUME EncodeInv, EncodeType', UNCHANGED apsMap, NEW r \in Roundtrips,
           \A x \in Roundtrips \ {r} :
             /\ spc'[x] = spc[x] /\ payload'[x] = payload[x]
             /\ headers'[x] = headers[x] /\ body'[x] = body[x],
           httpHeaders' \in {None, Fields}, RoundInv(r)',
           \A p \in Payloads : CacheInv(p)'
    PROVE  EncodeInv'
<1>1. ASSUME NEW x \in Roundtrips \ {r} PROVE RoundInv(x)'
  BY DEF EncodeInv, RoundInv, MergeTarget
<1> QED
  BY <1>1 DEF EncodeInv

\* A roundtrip makes its request and writes its headers.
LEMMA HeaderStep ==
    ASSUME EncodeInv, NEW r \in Roundtrips,
           \/ \E p \in Payloads : NewRequest(r, p)
           \/ NewRequestFails(r) \/ LoadHeader(r) \/ StoreHeader(r)
    PROVE  EncodeInv'
<1> USE DEF EncodeInv
<1>0. UNCHANGED <<json, body, apsMap, crashed>>
  BY DEF NewRequest, NewRequestFails, LoadHeader, StoreHeader
<1>1. EncodeType'
  BY <1>0 DEF NewRequest, NewRequestFails, LoadHeader, StoreHeader, Goto,
     EncodeType, SubmitPC
<1>2. httpHeaders' \in {None, Fields}
  BY DEF NewRequest, NewRequestFails, LoadHeader, StoreHeader
<1>3. \A p \in Payloads : CacheInv(p)'
  BY <1>0 DEF CacheInv
<1>5. \A x \in Roundtrips \ {r} :
        /\ spc'[x] = spc[x] /\ payload'[x] = payload[x]
        /\ headers'[x] = headers[x] /\ body'[x] = body[x]
  BY <1>0 DEF NewRequest, NewRequestFails, LoadHeader, StoreHeader, Goto,
     EncodeType
<1>6. RoundInv(r)'
  <2>1. CASE \E p \in Payloads : NewRequest(r, p)
    BY <2>1 DEF NewRequest, Goto, EncodeType, RoundInv, HasHeaders, HasBody
  <2>2. CASE NewRequestFails(r)
    BY <2>2 DEF NewRequestFails, Goto, EncodeType, RoundInv, HasHeaders, HasBody
  <2>3. CASE LoadHeader(r)
    BY <2>3 DEF LoadHeader, Goto, EncodeType, RoundInv, HasHeaders, HasBody
  <2>4. CASE StoreHeader(r)
    BY <2>4 DEF StoreHeader, Goto, EncodeType, RoundInv, HasHeaders, HasBody
  <2> QED
    BY <2>1, <2>2, <2>3, <2>4
<1> QED
  BY <1>0, <1>1, <1>2, <1>3, <1>5, <1>6, OwnStep

\* A roundtrip finds the encoding of its payload, or makes and stores it.
LEMMA EncodingStep ==
    ASSUME EncodeInv, NEW r \in Roundtrips,
           LoadJSON(r) \/ Marshal(r) \/ MarshalFails(r) \/ StoreJSON(r)
    PROVE  EncodeInv'
<1> DEFINE p == payload[r]
<1>0. /\ UNCHANGED <<payload, headers, httpHeaders, apsMap, crashed>>
      /\ EncodeType /\ RoundInv(r) /\ p \in Payloads /\ CacheInv(p)
      /\ spc[r] \in {"payload", "marshal", "storeJSON"}
  BY DEF LoadJSON, Marshal, MarshalFails, StoreJSON, EncodeInv, RoundInv
<1>1. /\ Merged(p) \in Dictionary
      /\ p \in NoAPS => Merged(p) = IF ApsMap[p] = Fresh THEN EmptyMap
                                    ELSE RawMap(ApsMap[p])
      /\ Encoding(p) = IF p \in Bytes THEN EmptyMap ELSE Merged(p)
  BY <1>0, MergedFacts
<1>2. MergeTarget(r) \in Cells
  BY <1>0, PayloadsAssumption DEF PayloadsAssumption, MergeTarget, Cells
<1>3. EmptyMap \in Dictionary /\ apsMap[MergeTarget(r)] \in Dictionary
  BY <1>0, <1>2, DictionaryTypes DEF EncodeType
<1>4. EncodeType'
  <2>1. CASE LoadJSON(r)
    BY <1>0, <1>3, <2>1 DEF LoadJSON, Goto, EncodeType, SubmitPC
  <2>2. CASE Marshal(r)
    BY <1>0, <1>3, <2>2 DEF Marshal, Goto, EncodeType, SubmitPC
  <2>3. CASE MarshalFails(r)
    BY <1>0, <2>3 DEF MarshalFails, Goto, EncodeType, SubmitPC
  <2>4. CASE StoreJSON(r)
    BY <1>0, <2>4 DEF StoreJSON, Goto, EncodeType, SubmitPC
  <2> QED
    BY <2>1, <2>2, <2>3, <2>4
<1>5. \A q \in Payloads : CacheInv(q)'
  <2>1. CASE ~StoreJSON(r)
    <3>1. json' = json
      BY <2>1 DEF LoadJSON, Marshal, MarshalFails
    <3> QED
      BY <1>0, <3>1 DEF EncodeInv, CacheInv
  <2>2. CASE StoreJSON(r)
    <3>1. SharesRaw(p) \/ body[r] = Encoding(p)
      BY <1>0, <2>2 DEF StoreJSON, RoundInv, HasBody
    <3>2. /\ json'[p] = body[r]
          /\ \A q \in Payloads \ {p} : json'[q] = json[q]
      BY <1>0, <2>2 DEF StoreJSON, EncodeType
    <3> QED
      BY <1>0, <3>1, <3>2 DEF EncodeInv, CacheInv
  <2> QED
    BY <2>1, <2>2
<1>6. httpHeaders' \in {None, Fields}
  BY <1>0 DEF EncodeInv
<1>7. \A x \in Roundtrips \ {r} :
        /\ spc'[x] = spc[x] /\ payload'[x] = payload[x]
        /\ headers'[x] = headers[x] /\ body'[x] = body[x]
  BY <1>0 DEF LoadJSON, Marshal, MarshalFails, StoreJSON, Goto, EncodeType
<1>8. RoundInv(r)'
  <2> USE <1>0 DEF Goto, EncodeType, RoundInv, HasHeaders, HasBody
  <2>1. CASE LoadJSON(r)
    <3>1. CASE p \in Bytes
      BY <1>1, <2>1, <3>1 DEF LoadJSON
    <3>2. CASE p \notin Bytes /\ json[p] # None
      BY <2>1, <3>2 DEF LoadJSON, CacheInv
    <3>3. CASE p \notin Bytes /\ json[p] = None /\ p \in NoAPS
      BY <2>1, <3>3 DEF LoadJSON
    <3>4. CASE p \notin Bytes /\ json[p] = None /\ p \notin NoAPS
      BY <2>1, <3>4 DEF LoadJSON
    <3> QED
      BY <3>1, <3>2, <3>3, <3>4
  <2>2. CASE Marshal(r)
    <3>1. /\ body'[r] = IF p \in NoAPS /\ ApsMap[p] = Fresh THEN EmptyMap
                        ELSE apsMap[MergeTarget(r)]
          /\ spc[r] = "marshal" /\ spc'[r] = "storeJSON"
      BY <2>2 DEF Marshal
    <3>2. SharesRaw(p) \/ body'[r] = Encoding(p)
      BY <1>1, <3>1 DEF CacheInv, MergeTarget
    <3> QED
      BY <3>1, <3>2
  <2>3. CASE MarshalFails(r)
    BY <2>3 DEF MarshalFails
  <2>4. CASE StoreJSON(r)
    BY <2>4 DEF StoreJSON
  <2> QED
    BY <2>1, <2>2, <2>3, <2>4
<1> QED
  BY <1>0, <1>4, <1>5, <1>6, <1>7, <1>8, OwnStep

\* A roundtrip merges an APS: into the map of the application, where only the
\* same payload's APS can have been before, or into a map of its own.
LEMMA MergeStep ==
    ASSUME EncodeInv, NEW r \in Roundtrips, Merge(r)
    PROVE  EncodeInv'
<1> DEFINE p == payload[r]
           t == MergeTarget(r)
           old == IF ApsMap[p] # Fresh THEN apsMap[t] ELSE EmptyMap
<1>0. /\ UNCHANGED <<payload, headers, httpHeaders, json, body, crashed>>
      /\ EncodeType /\ RoundInv(r) /\ p \in Payloads /\ CacheInv(p)
      /\ spc[r] = "merging" /\ p \notin NoAPS /\ p \notin Bytes
  BY DEF Merge, EncodeInv, RoundInv
<1>1. /\ t \in Cells /\ t = (IF ApsMap[p] # Fresh THEN ApsMap[p] ELSE r)
      /\ ApsMap[p] # Fresh => ApsMap[p] \in Maps
  BY <1>0, PayloadsAssumption DEF PayloadsAssumption, MergeTarget, Cells
<1>2. old \in Dictionary /\ AddToMap(p, old) \in Dictionary
  BY <1>0, <1>1, DictionaryTypes DEF EncodeType
<1>3. /\ apsMap' = [apsMap EXCEPT ![t] = AddToMap(p, old)]
      /\ spc' = [spc EXCEPT ![r] = "marshal"]
  BY <1>0, <1>1 DEF Merge, Goto, EncodeType
<1>4. /\ apsMap'[t] = AddToMap(p, old) /\ spc'[r] = "marshal"
      /\ \A m \in Cells \ {t} : apsMap'[m] = apsMap[m]
      /\ \A x \in Roundtrips \ {r} : spc'[x] = spc[x]
  BY <1>0, <1>1, <1>3 DEF EncodeType
<1>5. SharesRaw(p) \/ apsMap'[t] = Merged(p)
  <2>1. SUFFICES ASSUME ~SharesRaw(p) PROVE AddToMap(p, old) = Merged(p)
    BY <1>4
  <2>2. CASE ApsMap[p] = Fresh
    BY <2>2 DEF Merged
  <2>3. CASE ApsMap[p] # Fresh
    <3>1. old \in {RawMap(ApsMap[p]), Merged(p)}
      BY <1>0, <1>1, <2>1, <2>3 DEF CacheInv
    <3>2. AddToMap(p, RawMap(ApsMap[p])) = Merged(p)
      BY <2>3 DEF Merged
    <3> QED
      BY <1>0, <3>1, <3>2, MergedFacts
  <2> QED
    BY <2>2, <2>3
<1>6. EncodeType'
  BY <1>0, <1>1, <1>2, <1>3 DEF EncodeType, SubmitPC
<1> HIDE DEF old
<1>7. ASSUME NEW q \in Payloads PROVE CacheInv(q)'
  <2>1. CASE q = p
    BY <1>0, <1>1, <1>5, <2>1 DEF CacheInv
  <2>2. CASE q # p /\ ~SharesRaw(q)
    <3>1. ApsMap[q] # Fresh => ApsMap[q] \in Cells /\ ApsMap[q] # t
      BY <1>0, <1>1, <2>2, PayloadsAssumption
         DEF PayloadsAssumption, SharesRaw, Cells
    <3> QED
      BY <1>0, <1>4, <2>2, <3>1 DEF EncodeInv, CacheInv
  <2>3. CASE SharesRaw(q)
    BY <2>3 DEF CacheInv
  <2> QED
    BY <2>1, <2>2, <2>3
<1>8. RoundInv(r)'
  BY <1>0, <1>4, <1>5 DEF RoundInv, MergeTarget, HasHeaders, HasBody
<1>9. ASSUME NEW x \in Roundtrips \ {r} PROVE RoundInv(x)'
  <2>1. RoundInv(x) /\ spc'[x] = spc[x]
    BY <1>4 DEF EncodeInv
  <2>2. ASSUME spc[x] = "marshal", payload[x] \notin NoAPS,
               ~SharesRaw(payload[x])
        PROVE  apsMap'[MergeTarget(x)] = Merged(payload[x])
    <3>1. /\ payload[x] \in Payloads
          /\ apsMap[MergeTarget(x)] = Merged(payload[x])
      BY <2>1, <2>2 DEF RoundInv
    <3>2. MergeTarget(x) \in Cells
      BY <3>1, PayloadsAssumption DEF PayloadsAssumption, MergeTarget, Cells
    <3>3. CASE MergeTarget(x) # t
      BY <1>4, <3>1, <3>2, <3>3
    <3>4. CASE MergeTarget(x) = t
      <4>1. ApsMap[payload[x]] # Fresh /\ ApsMap[payload[x]] = ApsMap[p]
        BY <1>0, <1>1, <3>1, <3>4, PayloadsAssumption
           DEF PayloadsAssumption, MergeTarget
      <4>2. payload[x] = p
        BY <1>0, <2>2, <3>1, <4>1 DEF SharesRaw
      <4> QED
        BY <1>5, <2>2, <3>4, <4>2
    <3> QED
      BY <3>3, <3>4
  <2> QED
    BY <1>0, <2>1, <2>2 DEF RoundInv, MergeTarget
<1>10. httpHeaders' \in {None, Fields}
  BY <1>0 DEF EncodeInv
<1> QED
  BY <1>6, <1>7, <1>8, <1>9, <1>10 DEF EncodeInv

\* Nothing is written when the runtime finds two roundtrips in one map.
LEMMA MapFaultStep ==
    ASSUME EncodeInv, NEW r \in Roundtrips, MapFault(r)
    PROVE  EncodeInv'
  BY DEF MapFault, EncodeInv, EncodeType, RoundInv, CacheInv, MergeTarget

LEMMA SigningStep ==
    ASSUME EncodeInv, NEW r \in Roundtrips,
           SignNothing(r) \/ SignRequest(r) \/ SignRequestReturns(r)
    PROVE  EncodeInv'
<1>0. /\ UNCHANGED <<payload, httpHeaders, headers, json, body, apsMap, crashed>>
      /\ EncodeType /\ RoundInv(r) /\ spc[r] \in {"sign", "signing"}
      /\ \E pc \in {"signing", "sent", "failed"} : spc' = [spc EXCEPT ![r] = pc]
  BY DEF SignNothing, SignRequest, SignRequestReturns, Goto, EncodeInv
<1>1. EncodeType' /\ \A x \in Roundtrips \ {r} : spc'[x] = spc[x]
  BY <1>0 DEF EncodeType, SubmitPC
<1>2. RoundInv(r)'
  BY <1>0 DEF RoundInv, EncodeType, HasHeaders, HasBody
<1>3. /\ \A p \in Payloads : CacheInv(p)'
      /\ httpHeaders' \in {None, Fields}
  BY <1>0 DEF EncodeInv, CacheInv
<1> QED
  BY <1>0, <1>1, <1>2, <1>3, OwnStep

LEMMA EncodeStep ==
    ASSUME EncodeInv, [Next]_vars
    PROVE  EncodeInv'
<1>1. CASE UNCHANGED evars
  BY <1>1 DEF evars, EncodeInv, EncodeType, RoundInv, CacheInv, MergeTarget
<1>2. ASSUME NEW r \in Roundtrips,
             \/ \E p \in Payloads : NewRequest(r, p)
             \/ NewRequestFails(r) \/ LoadHeader(r) \/ StoreHeader(r)
      PROVE  EncodeInv'
  BY <1>2, HeaderStep
<1>3. ASSUME NEW r \in Roundtrips,
             LoadJSON(r) \/ Marshal(r) \/ MarshalFails(r) \/ StoreJSON(r)
      PROVE  EncodeInv'
  BY <1>3, EncodingStep
<1>4. ASSUME NEW r \in Roundtrips, Merge(r) \/ MapFault(r)
      PROVE  EncodeInv'
  BY <1>4, MergeStep, MapFaultStep
<1>5. ASSUME NEW r \in Roundtrips,
             SignNothing(r) \/ SignRequest(r) \/ SignRequestReturns(r)
      PROVE  EncodeInv'
  BY <1>5, SigningStep
<1> QED
  BY <1>1, <1>2, <1>3, <1>4, <1>5 DEF Next, vars

LEMMA EncodeInvariance == Spec => []EncodeInv
<1>1. Init => EncodeInv
  <2> SUFFICES ASSUME Init PROVE EncodeInv
    OBVIOUS
  <2> USE DEF Init
  <2>1. \A m \in Maps : apsMap[m] = RawMap(m)
    BY DEF Cells
  <2>2. EncodeType
    <3>1. apsMap \in [Cells -> Dictionary]
      BY DictionaryTypes
    <3> QED
      BY <3>1 DEF EncodeType, SubmitPC
  <2>3. \A r \in Roundtrips : RoundInv(r)
    BY DEF RoundInv, HasHeaders, HasBody
  <2>4. \A p \in Payloads : CacheInv(p)
    BY <2>1, PayloadsAssumption DEF PayloadsAssumption, CacheInv
  <2> QED
    BY <2>2, <2>3, <2>4 DEF EncodeInv
<1> QED
  BY <1>1, EncodeStep, PTL DEF Spec

\* For any number of roundtrips, payloads and maps: a request that is sent carries
\* all its routing headers and its own payload's dictionary, whichever roundtrip
\* filled the caches of Header and Payload, unless payloads share a Raw map.
THEOREM RequestsSentAsWritten == Spec => []SentAsWritten
<1>1. EncodeInv => SentAsWritten
  BY DEF EncodeInv, RoundInv, HasHeaders, HasBody, SentAsWritten
<1> QED
  BY <1>1, EncodeInvariance, PTL
=============================================================================
