SPECIFICATION Spec
CONSTANTS
  JobIds = {u1, u2}
  Askers = {c1, c2}
  MaxConcurrent = 1
  MaxToggles = 4
  MaxRestarts = 2
  JobFaults = {"drop", "error"}
  UserIds = {u1, u2}
  Nobody = Nobody
  Names = {m, n}
  Passwords = {p, q}
  Callers = {c1, c2}
  MaxTokens = 1
  MaxBoots = 2
  AuthFaults = {"vanish"}
  DevIds = {u1, u2}
  Codes = {q1}
  Visitors = {c1, c2}
  StartLimit = 2
  ConfirmLimit = 1
  MaxPairings = 1
  MaxRefreshes = 1
  MaxReboots = 1
  NoDev = NoDev
  Peers = {p1}
  Urls = {u1, u2}
  NoUrl = NoUrl
  Expiry = 2
  Capacity = 1
  MaxTicks = 2
  Chains = {ch1}
  LinkIds = {m, n}
  Rooms = {g1}
  Speakers = {u1, u2}
  Hands = {c1, c2}
  Nowhere = Nowhere
  MaxAsks = 3
  MaxDrops = 1
  Tunes = {u1, u2}
  Makers = {k1}
  MaxKeep = 1
  MaxFiles = 2
  MaxEdits = 1
SYMMETRY Symmetry
INVARIANTS
  OneRunner
  AccessFollows
  TokensEnd
  PresenceTrue
  OutputsAgree
  BackupsServe
CHECK_DEADLOCK FALSE
