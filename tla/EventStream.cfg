CONSTANTS
  Clients = {c1}
  QueueSize = 2
  MaxEvents = 5
  MaxDrops = 2
SPECIFICATION FairSpec
INVARIANTS
  TypeOK
  NoLossAfterSubscribe
PROPERTIES
  NoRedeliveryWhileRunning
  ImplementsFeed
  SubscriptionsReleased
