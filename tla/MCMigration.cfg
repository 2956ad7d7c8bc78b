SPECIFICATION Spec
CONSTANTS
  Device = {d, e}
  Payload = {p, q}
  Batch = 2
  MaxHashRange = 0
  MaxCounter = 2
  MaxCrashes = 2
INVARIANTS
  TypeOK
  HashesSpeakForStream
PROPERTIES
  OneMailbox
  Serves
