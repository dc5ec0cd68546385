SPECIFICATION MCSpec
CONSTANTS
  s1 = s1  s2 = s2  s3 = s3
  k1 = k1  k2 = k2  k3 = k3  kp = kp
  c1 = c1  c2 = c2
  NoKeys = NoKeys
  Configure = Configure
  Garbage = Garbage
  Sessions <- MCSessions
  KeySets <- MCKeySets
  SessionKeys <- MCSessionKeys
  PppKeys <- MCPppKeys
  Contents <- MCContents
  Metadata <- MCMetadata
  Upp <- MCUpp
  MAX_SEGMENT_SIZE = 1020
  blocksize = 16
  l_mac = 8
  Operations = {"encrypt_and_mac", "mac_only"}
  Lengths <- MCLengths
  Elements <- MCElements
  hash_fn <- MCHash
  MaxProofs = 2
INVARIANTS
  SegmentSizeLimited
CHECK_DEADLOCK FALSE
