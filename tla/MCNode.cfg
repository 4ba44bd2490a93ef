SPECIFICATION FairSpec
CONSTANTS
  ToJson <- xdrTagToJson
  FromJson <- jsonToXdr
  Commands <- MCCommands
  Order <- MCOrder
  MaxInFlight = 1
  MaxCount = 1
  Places = {1}
INVARIANTS
  TypeOK
  SenderKnown
  Addressed
  OneBall
PROPERTIES
  EventsArrive
  CommandsGo
  CommandsArrive
  RequestsAnswered
  ExplicitlyPublished
  EveryRefPolled
  PropertiesPublished
