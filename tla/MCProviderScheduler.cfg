\* Three runs on two providers, limits raised to 2 and lowered again.
CONSTANTS
  Providers = {ollama, openai}
  Waiters = {r1, r2, r3}
  Limits = {0, 1, 2}
SPECIFICATION FairSpec
INVARIANTS TypeOK SlotAccounting QueueMatchesClients NoIdleSlotWithWaiters
PROPERTIES NoOvertaking QueuedIsServed ImplementsSlotPool
