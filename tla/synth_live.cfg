\* poll without its timeout, and a card that plays at most a frame between two
\* steps of the loop: of a buffer of four it leaves one between a start and the
\* next look at the state, three steps on.  A note takes two voices of three, and
\* three events are a note, another that gets one voice, and their release.
SPECIFICATION Spec
CONSTANTS
  BufSize = 4
  AvailMin = 2
  Timeout = FALSE
  Burst = 1
  MaxEvents = 3
  MaxSuspends = 1
  Voices = 3
  Bars = 2
  Notes = {"c"}
  Vols = {2}
  Step = 1
PROPERTIES Recovers EventsHandled VoicesReturn
\* run may return with an error
CHECK_DEADLOCK FALSE
