SPECIFICATION Spec
CONSTANTS
  ToJson <- xdrTagToJson
  FromJson <- jsonToXdr
  Commands <- MCCommands
  Order <- MCOrder
  MaxInFlight = 1
  MaxCount = 1
  Places = {1}
PROPERTY OneEvent
