\* One polled and one event-driven query, one change each, the tab hidden once.
SPECIFICATION Spec
CONSTANTS
  Sources = {s1, s2}
  None = None
  MaxHides = 1
  Keys <- AllKeys
  Polled <- PolledKeys
  Refreshed <- PolledKeys
  Events <- EventTypes
  Touches <- EventKeys
  MaxVersion = 1
INVARIANTS
  OneDriver
  StaleHasCause
PROPERTIES
  EventuallyFresh
  SessionLossSurfaces
