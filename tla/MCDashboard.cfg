SPECIFICATION FairSpec
CONSTANTS
  Keys = {host, wgRow}
  Conns = {c1, c2}
  NoConn = NoConn
  SubscriberBuffer = 2
  WireCap = 1
  MaxVersion = 2
INVARIANTS TypeOK NoSendOnClosed FeedCoherent NothingLostEndToEnd OnlyLiveReadings
PROPERTIES NeverBackwards AbandonedUnsubscribed BackToLive Delivered
