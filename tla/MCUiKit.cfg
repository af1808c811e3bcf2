\* The sidebar open by default, up to three slides; any sequence of events.
SPECIFICATION KitSpec
CONSTANTS
  DefaultOpen = TRUE
  None = None
  MaxSlides = 3
INVARIANT ButtonsAgree
PROPERTY TogglesWhatIsShown
