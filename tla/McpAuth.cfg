SPECIFICATION AuthSpec
CONSTANTS
  Servers <- SomeServers
  Calls <- SomeCalls
  MaxCreds = 3
  MaxEvents = 3
CHECK_DEADLOCK FALSE
PROPERTIES
  CalmCredentialsFollowTheUser
  FlowsAndLogoutsEnd
