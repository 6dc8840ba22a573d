CONSTANTS
  Byte = {1, 2}
  Size = 4
  Writers = {"producer"}
  MaxWrite = 3
  MaxRead = 3
SPECIFICATION Spec
INVARIANTS TypeOK Reservations
PROPERTY ImplementsChannel
