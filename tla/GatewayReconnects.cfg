SPECIFICATION ReachableSpec
CONSTANTS
  MaxInbox = 2
  MaxEvents = 2
  MaxPairs = 2
PROPERTY StaysGateway
