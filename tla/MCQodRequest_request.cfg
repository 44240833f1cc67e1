\* Every request of AllCalls from the HTTP service on, creations as far as the PCF.
SPECIFICATION RestSpec
CONSTANTS
  None = None  Unparseable = Unparseable
  Requests <- AllRequests
  Supi = "supi"
  ValidIpv4 = {"pub", "priv"}
  ValidIpv6 = {"full"}
  ValidRates <- Rates
  qos_profile_mappings_ <- Mappings
  qos_profile_max_durations <- MaxDurations
  ValidMappings <- Accepted
  max_session_duration = 5
  min_session_duration = 1
  Ports = {0, 1, 2, 3, 4, 5}
  Calls <- AllCalls
  Decode <- DecodeSegments
  Lower <- LowerNames
  QueryKey <- QueryKeys
  Fresh = Fresh
  TwoLegged <- TwoLeggedIds
INVARIANTS AnswerIsTrue AnswerDescribesSession FlowsMeanPorts ContextNamesDevice AcceptedIsSent
CHECK_DEADLOCK FALSE
