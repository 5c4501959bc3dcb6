CONSTANTS
  Clients = {c1}
  QueueSize = 2
  MaxEvents = 5
  MaxDrops = 1
SPECIFICATION Spec
PROPERTIES
  NoGapOnRunningStream
