\* every call may fail; devices come and go, until the bus settles
SPECIFICATION FairSpec
CONSTANTS
  None = None
  phone = phone
  locked = locked
  webcam = webcam
  Devices = {phone, locked, webcam}
  Webcams = {webcam}
  Androids = {phone, locked, webcam}
  AdbOnly = {locked}
  Identifiers = 2
  Faults = {"list", "descriptor", "config", "open", "claim", "protocol", "ident", "start"}
INVARIANTS
  HandlesAccountedFor
PROPERTIES
  OnlyIdentifiedPhonesStart
  PhoneIsOpened
\* the worker exits
CHECK_DEADLOCK FALSE
