\* Three handlers, a window longer than the cooldown, as in the defaults.
SPECIFICATION FairSpec
CONSTANTS
  h1 = h1
  h2 = h2
  h3 = h3
  Callers = {h1, h2, h3}
  Threshold = 2
  Window = 3
  Cooldown = 2
INVARIANTS
  CooldownKept
PROPERTY OpenIsLeft
