SPECIFICATION FairSpec
CONSTANTS
  Requests = {r1, r2}
  Threads = 1
  Uris <- OneHostUris
  Keys <- OneHostKeys
  KeyOf <- OneHostKeyOf
  PeerOf <- OneHostPeerOf
  Shards <- OneShard
  ShardOf <- OneHostShard
  Unresponsive <- Nobody
  NoKey = NoKey
  None = None
PROPERTIES
  Completes
CHECK_DEADLOCK FALSE
