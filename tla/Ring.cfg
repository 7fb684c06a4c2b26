SPECIFICATION Spec
CONSTANTS
  Parts = {"setup", "socket", "collective"}
  Size = 3
  Addresses = 2
  Attempts = 3
  MaxFaults = 1
  Messages <- MCMessages
  Replies <- MCReplies
  SocketCapacity = 1
  Destroyed = {1}
  MaxErrors = 2
  MinBuffer = 1
  AllSum = 2
  LinkCapacity = 1
INVARIANTS PromisesHonest WakeupsLostOnlyByDestructor CollectiveCorrect
PROPERTIES RingReturns SendsStable
