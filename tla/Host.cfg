\* run() and openSession(); on the chat two send() and one start(), in any order.
SPECIFICATION MCSpec
CONSTANTS
  Sends = {s1, s2}
  Starts = {c1}
  Clients = {1, 2}
  Natives = {1}
  SessionHandles = {1, 2}
  Runs = {1, 2}
  Readers = {1}
  NoRun = 0
  MaxInputs = 5
  MaxEntries = 2
  MaxJobs = 2
CHECK_DEADLOCK FALSE
INVARIANTS
  HandlesReleased OneRunAtATime OutcomesAreAuthoritative FakeProviderSound PublicationSound
PROPERTIES
  StepsInOrder CallsSettled
