SPECIFICATION Spec
CONSTANTS
  Paths = {x, y}
  Hazards = {}
  MaxEvents = 2
  Sessions = {s1, s2}
  Contents = {x, y}
  Requests = {c1, c2}
  NameOf <- SameName
  Foreign = Foreign
  Cut = Cut
  Nothing = Nothing
  Disturbances = {"tear"}
  MaxRequests = 4
  MaxCrashes = 1
  Lists = {l1}
  Songs = {x, y}
  Clients = {c1, c2}
  MaxCalls = 3
  MaxAborts = 1
  Profiles = {eco, balanced}
  Default = balanced
  Unset = Unset
  Editors = {c1, c2}
  Events = {e1}
  Lengths = {0, 100000}
  Listens = {40000, 60000}
  MaxSaves = 2
  MaxStarts = 1
  Listeners = {c1, c2}
  Setups <- BothServers
  MaxVersions = 2
  MaxStreams = 3
SYMMETRY Symmetry
INVARIANTS
  LibraryHonest
  ImportsWhole
  PlaylistsAgree
  SettingsKept
  StreamsHonest
PROPERTY ImplementsContract
CHECK_DEADLOCK FALSE
