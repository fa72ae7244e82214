CONSTANTS
  p1 = p1 p2 = p2 p3 = p3
  s1 = s1 s2 = s2 s3 = s3
  k1 = k1 k2 = k2 k3 = k3 k4 = k4
  Proc = {p1, p2}
  Session = {s1, s2, s3}
  Token = {k1, k2, k3}
  Track <- TwoTracks
  NoProc = NoProc
  NoSession = NoSession
  NoToken = NoToken
  Unknown = Unknown
SPECIFICATION Spec
SYMMETRY Symmetric
INVARIANTS TypeOK SingleUse RotationKept OneRefreshPerWindow TrackIsolation BearerOnTrack
PROPERTIES DisplacedErased ImplementsTokenRotation
