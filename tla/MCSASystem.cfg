CONSTANTS
  sender1 = sender1
  sender2 = sender2
  Tasks = {sender1, sender2}
  NoPacket = NoPacket
  MAX_SAPACKET_LEN = 7
  RxSize = 7
  TxSize = 8
  Commands <- MCCommands
  Orders <- MCOrders
  Pad <- MCPad
  Retries = TRUE
  MaxSent = 2
  MaxAccepted = 2
  MaxLine = 8
  MaxLost = 1
  MaxDropped = 1
  Garble = {6}
SPECIFICATION ChannelSpec
INVARIANTS
  WholeCommands
PROPERTIES
  ImplementsLink
  MessagesArrive
CHECK_DEADLOCK FALSE
