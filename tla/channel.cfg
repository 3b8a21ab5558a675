SPECIFICATION Spec
CONSTANTS
  Sizes = {2}
  SocketBuffer = 2
  Limit = 2
  FileSize = 2
  MaxMessages = 3
  Requests = {"ping", "quit", "subscribe", "block", "psync", "broken"}
  MaxRequests = 3
INVARIANTS ChannelConsistent Framed Intact
PROPERTIES CloseFlushes Drains Handled
CHECK_DEADLOCK FALSE
