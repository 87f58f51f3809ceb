SPECIFICATION Spec
CONSTANTS
  Requests = {r1, r2}
  Threads = 2
  Uris <- DefaultPortUris
  Keys <- DefaultPortKeys
  KeyOf <- DefaultPortKeyOf
  PeerOf <- DefaultPortPeerOf
  Shards <- OneShard
  ShardOf <- DefaultPortShard
  Unresponsive <- Nobody
  NoKey = NoKey
  None = None
INVARIANTS
  DialedPeer
CHECK_DEADLOCK FALSE
