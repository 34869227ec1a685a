\* With and without -t: three datagrams, two suspensions, calls that fail.
SPECIFICATION FairSpec
CONSTANTS
  Clients <- SomeClients
  Collector <- TheCollector
  Fds <- AnyFd
  MaxDatagrams = 3
  MaxResumes = 2
  MayFail = TRUE
INVARIANTS DescriptorsKeepTheirOwners NoBufferLeaks ChangesAnnounced
PROPERTIES DatagramsRead
CHECK_DEADLOCK FALSE
