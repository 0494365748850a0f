SPECIFICATION ParserSpec
CONSTANTS
    Raws <- MCRaws
    Calls = {"get", "max_packet_size"}
    Endpoints = {1, 2}
    MaxInterfaces = 2
    MaxEndpoints = 2
    MaxFailures = 1
INVARIANTS
  
  ParseFaithful
  Freed
PROPERTIES
  CallEnds
CHECK_DEADLOCK FALSE
