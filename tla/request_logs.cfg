SPECIFICATION LogSpec
CONSTANTS
  Requests = {1, 2}
  NoRequest = 0
  Streams = {"stdout", "stderr"}
  Modes = {"common", "concurrent"}
  LogTypes = {"none", "tail", "file"}
  Printed <- PrintedLines
  Buffers = {1, 2}
  NoBuffer = 0
  BufferLength = 3
  TailLength = 2
  FileCapacity = 20
 
INVARIANT LogStoresSound
PROPERTY LogsClose
CHECK_DEADLOCK FALSE
