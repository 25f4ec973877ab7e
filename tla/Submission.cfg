SPECIFICATION Spec
CONSTANTS
  Callers = {r1, r2, r3}
  TokenLifeSpan = 1
  DefaultTokenLifeSpan = 3
  MaxTime = 1
  NoToken = NoToken
  Nobody = Nobody
  Payloads <- MCPayloads
  Keys = {"alert", "badge"}
  APSKeys <- MCAPSKeys
  NoAPS = {rawOnly}
  Maps = {m, n}
  ApsMap <- MCApsMap
  Fresh = Fresh
  RawKeys <- MCRawKeys
  Bytes = {bytes}
  Fields = {"topic", "priority"}
  None = None
  apsOnly = apsOnly
  merged = merged
  twin = twin
  rawOnly = rawOnly
  bytes = bytes
  m = m
  n = n
SYMMETRY MCSymmetry
INVARIANTS
  SentAsWritten
PROPERTIES
  TokensSpaced
  ImplementsTokenSource
CHECK_DEADLOCK FALSE
