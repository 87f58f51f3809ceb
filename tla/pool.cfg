SPECIFICATION FairSpec
CONSTANTS
  Requests = {r1, r2, r3}
  Threads = 3
  Uris <- ExplicitUris
  Keys <- ExplicitKeys
  KeyOf <- ExplicitKeyOf
  PeerOf <- ExplicitPeerOf
  Shards <- TwoShards
  ShardOf <- ExplicitShards
  Unresponsive <- HostASilent
  NoKey = NoKey
  None = None
INVARIANTS
  TypeOK
  OneEstablisher
  NoOrphanDriver
  SessionOfOwnKey
  LockHeldWhileEstablishing
PROPERTIES
  ImplementsSharedSession
  DeadSessionIsFinal
  Completes
