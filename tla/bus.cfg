\* Three writes into a queue for two, a fifo for two packets, driver and writer in each other's
\* accesses up to four times.
CONSTANTS
  MaxWrites = 3
  QueueRoom = 2
  FifoRoom = 2
  Incoming <- FromTheBus
  MaxDone = 2
  MaxMeetings = 4
  DataLens <- TelemetryLens
SPECIFICATION FairSpec
INVARIANT
  ChargeDrift
PROPERTIES
  DriverKeepsOrder
  ReaderWakes
  TelemetrySent
CHECK_DEADLOCK FALSE
