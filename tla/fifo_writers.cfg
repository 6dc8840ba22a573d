CONSTANTS
  Byte = {1, 2}
  Size = 4
  Writers = {"app", "keep_alive"}
  MaxWrite = 2
  MaxRead = 2
SPECIFICATION Spec
PROPERTY ImplementsChannel
