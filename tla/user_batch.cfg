CONSTANTS
  alice = alice
  bob = bob
  shared = shared
  mixed = mixed
  Mixed = Mixed
  acme = acme
  AtAcme = AtAcme
  original = original
  repost = repost
  later = later
  news = news
  tweet = tweet
  Users <- TwoUsers
  Sources <- ThreeSources
  Channels <- ThreeRows
  Canon <- CanonOf
  Telegram <- OfTelegram
  Watch <- Watching
  SourceOf <- Origin
  TextOf <- Wording
  BufferMax = 2
  Posts <- FivePosts
  MaxCopies <- Copies
SPECIFICATION BatchSpec
INVARIANTS
  PostsAccounted
PROPERTIES
  BufferedIsProcessed
