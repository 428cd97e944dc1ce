SPECIFICATION Spec
CONSTANTS
  Routes <- SomeRoutes
  Containers <- SomeContainers
  Schemas <- SomeSchemas
  Hops <- SomeHops
  Selections <- SomeSelections
  Endpoints <- SomeEndpoints
  Agents <- SomeAgents
  Words <- SomeWords
  Normalized <- Normalization
  Cut <- Cutting
  Lower <- LowerCase
  Critical <- Criticalities
  LowValue = {"prometheus"}
  Web = {"web-1"}
  Limit = 3
  MaxClones = 2
  MaxLinks = 2
  MaxSchemas = 1
  MaxChanges = 2
  Faults <- AllFaults
CHECK_DEADLOCK FALSE
INVARIANTS
  TypeOK
  OnlySelected
  SelectedAreAttacked
  EndpointIsWorkload
  CrewNamesDeployed
