SPECIFICATION FairSpec
CONSTANTS
  e1 = e1
  e2 = e2
  h1 = h1
  h2 = h2
  h3 = h3
  price = price
  stock = stock
  NoEvent = NoEvent
  Events = {e1, e2}
  Handlers = {h1, h2, h3}
  Callers = {"c1"}
  Workers = {"w1"}
  Types = {price, stock}
  TypeOf <- MCTypeOf
  Urgency <- MCUrgency
  On <- MCOn
  Accepts <- MCAccepts
  MaxRetries <- MCMaxRetries
  Early <- MCEarly
  Cap = 2
  MaxReplays = 1
INVARIANT TypeOK
INVARIANT NothingSkipped
INVARIANT WithinPolicy
INVARIANT LettersKept
PROPERTY EveryDispatchEnds
PROPERTY QueuedIsTaken
CHECK_DEADLOCK FALSE
