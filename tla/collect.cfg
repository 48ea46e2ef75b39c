CONSTANTS
  news = news
  memes = memes
  telegram = telegram
  reddit = reddit
  Sources <- TwoSources
  Kinds <- TwoKinds
  KindOf <- OneReddit
  NoMarker = NoMarker
  Ticks = {c1, c2}
  Lookback = 1
  Retention = 1
  MaxTime = 2
  MaxPosts = 1
SPECIFICATION CollectSpec
INVARIANTS
  NoSilentGap
PROPERTIES
  EveryPostSettles
