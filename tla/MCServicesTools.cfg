\* Two adapters with the same tool, of which one is removed.
CONSTANTS
  p = p
  q = q
  r = r
  x = x
  y = y
  z = z
  n1 = n1
  n2 = n2
  n3 = n3
  a = a
  b = b
  Peer = {p, q}
  Purpose = {"provenance", "sync"}
  MaxBuffer = 1
  MaxWire = 2
  MaxRecords = 2
  MaxOnline = 2
  Entity = {x}
  Value = {"v"}
  MaxVersion = 1
  Service = {p, q, r}
  Adapter = {a, b}
  RemoteId = {p}
  Tool = {"t"}
  Role = {"s"}
  MaxListed = 2
  Nobody = Nobody
  Runtime = {p}
  NodeId = {1, 2, 3}
  MaxParents = 2
  NodesOf <- MCNodesOf
  Policies <- MCPolicies
  ScoreValues = {40, 60}
  None = None
  EntityId = {x, y}
  EntityRole = {"panel", "file"}
  Source = {"s"}
  MaxGraphVersion = 4
  Local = r
  RemotePeer = {p}
  SharedEntity = {x, y}
  OwnNote = {n1}
  PeerNote = {n2, n3}
  AboutOf <- MCAboutOf
  Permission = {"read"}
  MaxNotes = 2
  Thing = {x, y, z}
  Nothing = Nothing
  HistoryLimit = 2
  RemoteLimit = 2
  MaxTurns = 1
  File = {x}
  HotDelay = 1
  WarmDelay = 2
  ColdDelay = 3
  Recent = 2
  MaxChangesPending = 2
  Off = Off
  SilenceMs = 2
  MinSpeechMs = 1
  Never = Never
  MaxSessions = 3
  MaxUtterances = 2
SPECIFICATION MCSpec
INVARIANT ToolsFound
CHECK_DEADLOCK FALSE
