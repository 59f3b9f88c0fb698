SPECIFICATION MqttFairSpec
CONSTANTS
  a = a
  b = b
  t = t
  u = u
  None = None
  First = a
  Children = {a, b}
  Topics = {t, u}
  TopicLists <- MCLists
  Behind <- MCBehind
  Patient = TRUE
  MaxChildren = 8
  RefMod = 256
  MaxId = 2
  MaxOwn = 1
  MaxPubs = 1
  MaxWire = 1
CHECK_DEADLOCK FALSE
INVARIANTS WireIsSound SubscriberIsServed
PROPERTY EveryoneIsServed
