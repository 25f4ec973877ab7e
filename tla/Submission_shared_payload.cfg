SPECIFICATION Spec
CONSTANTS
  Callers = {r1, r2}
  TokenLifeSpan = 1
  DefaultTokenLifeSpan = 3
  MaxTime = 1
  NoToken = NoToken
  Nobody = Nobody
  Payloads = {merged}
  Keys = {"alert", "badge"}
  APSKeys <- MCAPSKeys
  NoAPS = {}
  Maps = {m}
  ApsMap <- MCApsMap
  Fresh = Fresh
  RawKeys <- MCRawKeys
  Bytes = {}
  Fields = {"topic", "priority"}
  None = None
  apsOnly = apsOnly
  merged = merged
  twin = twin
  rawOnly = rawOnly
  bytes = bytes
  m = m
  n = n
INVARIANTS
  OnePayloadForMany
CHECK_DEADLOCK FALSE
