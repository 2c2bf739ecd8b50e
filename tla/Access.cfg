\* Two requests over HTTP while the issuer replaces its keys, and six ways to start.
SPECIFICATION FairSpec
CONSTANTS
  r1 = r1
  r2 = r2
  k1 = k1
  k2 = k2
  reader = reader
  writer = writer
  admin = admin
  expired = expired
  p1 = p1
  p2 = p2
  p3 = p3
  Requests = {r1, r2}
  Tokens = {reader, writer, admin, expired}
  Bearer <- MCBearer
  Keys = {k1, k2}
  KeyOf <- MCKeyOf
  KidOf <- MCKidOf
  Suits <- MCSuits
  Fit = {reader, writer, admin}
  Published = {k1}
  None = None
  Ttl = 2
  Minute = 3
  FetchTime = 1
  MaxTime = 2
  Plugins = {p1, p2, p3}
  Offers <- MCOffers
  Others <- MCOthers
  Servers <- MCServers
  Grants <- MCGrants
  Asked = {"update_network", "update_camera", "get_plugin_status", "archive_clips"}
INVARIANTS
  VerifierTypeOK
  TypeOK
  ScopesHold
  PluginsWhole
PROPERTIES
  KeyWasRecent
  RefusedForCause
  ForcedApart
  VerificationEnds
CHECK_DEADLOCK FALSE
