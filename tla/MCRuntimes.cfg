\* Two calls of dispatch(), with saves and restarts at any time; six calls through one
\* breaker, some of which never report; two links to one or two peers, with drops, losses,
\* crashes and restarts at any time.
CONSTANTS
  c1 = c1
  c2 = c2
  i1 = i1
  i2 = i2
  w1 = w1
  w2 = w2
  Call = {c1, c2}
  Intent = {i1, i2}
  Worker = {w1, w2}
  Envelope <- MCEnvelope
  p1 = p1
  p2 = p2
  a = a
  b = b
  NoLink = NoLink
  NoPeer = NoPeer
  Peer = {p1, p2}
  Link = {a, b}
  MaxPeers = 2
  MaxMissed = 1
  MaxAttempts = 1
  Threshold = 2
  HalfOpenMax = 2
  Caller = {1, 2, 3, 4, 5, 6}
  MayAbandon = TRUE
SPECIFICATION MCSpec
INVARIANTS RunIsAuthorized AnswerMatchesLog IndexesAgree SavedIsKept
INVARIANTS ClosedBelowThreshold SpellWithinLimit SomebodyWillDecide
INVARIANTS TypeOK DirectoryFollows CountIsHonest TimersAreLive RelayIsLive
PROPERTIES DecisionsStand EveryDispatchAnswered
PROPERTIES NoShortcutToClosed
PROPERTIES SessionsEndWithPeers DeadPeersAreDropped
