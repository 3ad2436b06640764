\* One peer allowed at a time: the documented maximum of open connections.
CONSTANTS
  c1 = c1
  c2 = c2
  i1 = i1
  i2 = i2
  w1 = w1
  w2 = w2
  Call = {c1, c2}
  Intent = {i1, i2}
  Worker = {w1, w2}
  Envelope <- MCEnvelope
  p1 = p1
  p2 = p2
  a = a
  b = b
  NoLink = NoLink
  NoPeer = NoPeer
  Peer = {p1, p2}
  Link = {a, b}
  MaxPeers = 1
  MaxMissed = 1
  MaxAttempts = 1
  Threshold = 2
  HalfOpenMax = 2
  Caller = {1, 2, 3, 4, 5, 6}
  MayAbandon = TRUE
SPECIFICATION MCSpec
INVARIANT OpenWithinMax
