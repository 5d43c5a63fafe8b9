\* Three writes over two connection threads, racing __init__ and the one
\* pass of the flush thread.  Writers may stop, so the system may stop.
CONSTANTS
  Conns <- MCConns
  Pids <- MCPids
  MaxWrites = 3
SPECIFICATION Spec
PROPERTY WritesFlushed
CHECK_DEADLOCK FALSE
