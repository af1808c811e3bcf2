---------------------------- MODULE UiKitProofs -----------------------------
(***************************************************************************)
(* For any number of slides, any default and any sequence of events: the   *)
(* buttons of the carousel agree with what its arrow keys would do, and a  *)
(* click or the shortcut toggles what is on screen.                        *)
(***************************************************************************)
EXTENDS UiKit, TLAPS

\* Once subscribed, the wrapper's next copy is what the instance says.
HeardInv == heard => queued = CanScroll(embla)

\* The width is known, or exactly then the event that tells it is still to come.
WidthInv == mounted => (changed <=> pending.isMobile # narrow)

\* The inductive invariant.
KitInv == TypeOK /\ CarouselTypeOK /\ HeardInv /\ WidthInv

-----------------------------------------------------------------------------
(* The carousel.                                                           *)

\* The wrapper's flags are two Booleans, whatever the instance is.
LEMMA CanScrollType == \A e : CanScroll(e) \in Ends
  BY DEF CanScroll, Ends

\* The neighbour of a slide is a slide.
LEMMA BesideType ==
  ASSUME NEW e \in Instances, e.at <= e.slides, NEW step \in {-1, 1}
  PROVE  Beside(e, step) \in 1..e.slides
<1>1. e.slides \in 1..MaxSlides /\ e.at \in 1..MaxSlides /\ e.loop \in BOOLEAN
  BY DEF Instances
<1>2. e.slides \in Nat /\ e.at \in Nat /\ 1 <= e.at /\ 1 <= e.slides
  BY <1>1, MaxSlidesAssumption
<1> QED
  BY <1>1, <1>2 DEF Beside

\* A step of the carousel keeps its types, and the copy it will render next.
LEMMA CarouselStep ==
  ASSUME CarouselTypeOK, HeardInv, [CarouselNext]_carouselVars
  PROVE  CarouselTypeOK' /\ HeardInv'
<1> USE CarouselTypeOK, HeardInv
<1>0. /\ embla \in Instances /\ embla.at <= embla.slides
      /\ embla.slides \in 1..MaxSlides /\ embla.at \in 1..MaxSlides
      /\ embla.loop \in BOOLEAN
      /\ MaxSlides \in Nat
      /\ known \in BOOLEAN /\ heard \in BOOLEAN /\ (heard => known)
      /\ canScroll \in Ends /\ queued \in Ends
  BY MaxSlidesAssumption DEF CarouselTypeOK, Instances
<1>a. ASSUME NEW e \in Instances, e.at <= e.slides, NEW event, Emits(e, event),
             event \in {"reInit", "select"}
      PROVE  CarouselTypeOK' /\ HeardInv'
  <2>1. embla' = e /\ known' = known /\ heard' = heard /\ canScroll' = canScroll
    BY <1>a DEF Emits
  <2>2. CASE heard
    <3>1. queued' = CanScroll(embla')
      BY <1>a, <2>2 DEF Emits, Hears, OnSelect
    <3> QED
      BY <1>0, <1>a, <2>1, <3>1, CanScrollType DEF CarouselTypeOK, HeardInv
  <2>3. CASE ~heard
    <3>1. queued' = queued
      BY <1>a, <2>3 DEF Emits, Hears
    <3> QED
      BY <1>0, <1>a, <2>1, <2>3, <3>1 DEF CarouselTypeOK, HeardInv
  <2> QED
    BY <2>2, <2>3
<1>b. ASSUME NEW step \in {-1, 1}, Scroll(step)
      PROVE  CarouselTypeOK' /\ HeardInv'
  <2>1. Beside(embla, step) \in 1..embla.slides
    BY <1>0, BesideType
  <2>2. /\ embla' = [embla EXCEPT !.at = Beside(embla, step)]
        /\ queued' = CanScroll(embla') /\ canScroll' = queued'
        /\ known' = known /\ heard' = heard
    BY <1>b DEF Scroll, Hears, OnSelect
  <2>3. embla' \in Instances /\ embla'.at <= embla'.slides
    BY <1>0, <2>1, <2>2 DEF Instances
  <2> QED
    BY <1>0, <2>2, <2>3, CanScrollType DEF CarouselTypeOK, HeardInv
<1>1. CASE RenderApi
  BY <1>0, <1>1 DEF RenderApi, CarouselTypeOK, HeardInv
<1>2. CASE Subscribe
  BY <1>0, <1>2, CanScrollType DEF Subscribe, OnSelect, CarouselTypeOK, HeardInv
<1>3. CASE RenderButtons
  BY <1>0, <1>3 DEF RenderButtons, CarouselTypeOK, HeardInv
<1>4. CASE ClickPrevious \/ ClickNext \/ HandleKeyDown
  BY <1>4, <1>b DEF ClickPrevious, ClickNext, HandleKeyDown
<1>5. CASE Select
  <2>1. PICK n \in 1..embla.slides : Emits([embla EXCEPT !.at = n], "select")
    BY <1>5 DEF Select
  <2>2. /\ [embla EXCEPT !.at = n] \in Instances
        /\ [embla EXCEPT !.at = n].at <= [embla EXCEPT !.at = n].slides
    BY <1>0, <2>1 DEF Instances
  <2> QED
    BY <1>a, <2>1, <2>2
<1>6. CASE ReInit
  <2> DEFINE e(n, l) == [slides |-> n, loop |-> l, at |-> IF embla.at > n THEN n ELSE embla.at]
  <2>1. PICK n \in 1..MaxSlides, l \in BOOLEAN : Emits(e(n, l), "reInit")
    BY <1>6 DEF ReInit
  <2>2. e(n, l) \in Instances /\ e(n, l).at <= e(n, l).slides
    BY <1>0, <2>1 DEF Instances
  <2> HIDE DEF e
  <2> QED
    BY <1>a, <2>1, <2>2
<1>7. CASE Remount
  <2>1. embla' \in Instances /\ embla'.at <= embla'.slides
    <3>1. embla' \in Instances /\ embla'.at = 1
      BY <1>7 DEF Remount, Mounted
    <3> QED
      BY <3>1, MaxSlidesAssumption DEF Instances
  <2> QED
    BY <1>0, <1>7, <2>1 DEF Remount, CarouselTypeOK, HeardInv
<1>8. CASE UNCHANGED carouselVars
  BY <1>0, <1>8 DEF carouselVars, CarouselTypeOK, HeardInv
<1> QED
  BY <1>1, <1>2, <1>3, <1>4, <1>5, <1>6, <1>7, <1>8 DEF CarouselNext

-----------------------------------------------------------------------------
(* The sidebar.                                                            *)

\* MountReads keeps a state a state, and leaves the width known.
LEMMA MountReadsType ==
  ASSUME NEW st \in States, narrow \in BOOLEAN
  PROVE  /\ MountReads(st) \in States
         /\ MountReads(st).open = st.open /\ MountReads(st).openMobile = st.openMobile
         /\ MountReads(st).isMobile = IF mounted THEN st.isMobile ELSE narrow
  BY DEF MountReads, States

\* What a closure toggles.
LEMMA ToggledType ==
  ASSUME NEW st \in States, NEW seen \in States \cup Closures
  PROVE  /\ Toggled(seen, st) \in States
         /\ Toggled(seen, st).isMobile = st.isMobile
         /\ Remembered(seen) \in BOOLEAN \cup {cookie}
  BY DEF Toggled, Remembered, States, Closures

\* The user's event: everything is rendered, and the listener is that render's.
LEMMA CommitStep ==
  ASSUME TypeOK, WidthInv, NEW st \in States, st.isMobile = pending.isMobile,
         Commit(st), cookie' \in BOOLEAN \cup {None}
  PROVE  TypeOK' /\ WidthInv'
<1>1. MountReads(st) \in States /\ MountReads(st).isMobile = IF mounted THEN st.isMobile ELSE narrow
  BY MountReadsType DEF TypeOK
<1>2. Armed(MountReads(st)) \in Closures
  BY <1>1 DEF Armed, Closures, States
<1>3. Armed(MountReads(st)) # None
  BY <1>2, NoneAssumption DEF Closures
<1>4. TypeOK'
  BY <1>1, <1>2, <1>3 DEF TypeOK, Commit, Armed
<1>5. WidthInv'
  BY <1>1 DEF WidthInv, Commit, TypeOK
<1> QED
  BY <1>4, <1>5

\* A step of the sidebar keeps its types, and the width that it knows.
LEMMA SidebarStep ==
  ASSUME TypeOK, WidthInv, [Next]_vars
  PROVE  TypeOK' /\ WidthInv'
<1> USE TypeOK, WidthInv
<1>0. /\ narrow \in BOOLEAN /\ changed \in BOOLEAN /\ mounted \in BOOLEAN /\ effects \in BOOLEAN
      /\ state \in States /\ pending \in States
  BY DEF TypeOK
<1>1. CASE Resize
  <2>1. /\ narrow' = ~narrow /\ changed' = (mounted /\ ~changed)
        /\ mounted' = mounted /\ state' = state /\ pending' = pending
        /\ effects' = effects /\ key' = key /\ cookie' = cookie
    BY <1>1 DEF Resize
  <2>2. narrow' \in BOOLEAN /\ changed' \in BOOLEAN
    BY <1>0, <2>1
  <2>3. TypeOK'
    BY <2>1, <2>2 DEF TypeOK
  <2>4. pending.isMobile \in BOOLEAN
    BY <1>0 DEF States
  <2> QED
    BY <1>0, <2>1, <2>3, <2>4 DEF WidthInv
<1>2. CASE OnChange
  BY <1>0, <1>2 DEF OnChange, TypeOK, WidthInv, States
<1>3. CASE Render
  BY <1>0, <1>3 DEF Render, TypeOK, WidthInv
<1>4. CASE FlushEffects
  <2>1. Armed(state) \in Closures /\ Armed(state) # None
    BY <1>0, NoneAssumption DEF Armed, Closures, States
  <2> QED
    BY <1>0, <1>4, <2>1, MountReadsType DEF FlushEffects, Armed, TypeOK, WidthInv
<1>5. CASE Click
  <2>1. Toggled(state, pending) \in States /\ Toggled(state, pending).isMobile = pending.isMobile
        /\ Remembered(state) \in BOOLEAN \cup {cookie}
    BY <1>0, ToggledType
  <2> QED
    BY <1>5, <2>1, CommitStep DEF Click, TypeOK
<1>6. CASE Press
  <2>0. key \in Closures
    BY <1>6 DEF Press, TypeOK
  <2>1. Toggled(key, pending) \in States /\ Toggled(key, pending).isMobile = pending.isMobile
        /\ Remembered(key) \in BOOLEAN \cup {cookie}
    BY <1>0, <2>0, ToggledType
  <2> QED
    BY <1>6, <2>1, CommitStep DEF Press, TypeOK
<1>7. CASE CloseSheet
  <2>1. [pending EXCEPT !.openMobile = FALSE] \in States
        /\ [pending EXCEPT !.openMobile = FALSE].isMobile = pending.isMobile
    BY <1>0 DEF States
  <2> QED
    BY <1>7, <2>1, CommitStep DEF CloseSheet, TypeOK
<1>8. ASSUME NEW value \in BOOLEAN, HostSetsOpen(value) \/ HostSetsOpenMobile(value)
      PROVE  TypeOK' /\ WidthInv'
  BY <1>0, <1>8 DEF HostSetsOpen, HostSetsOpenMobile, SetOpen, TypeOK, WidthInv, States
<1>9. CASE UNCHANGED vars
  BY <1>9 DEF vars, TypeOK, WidthInv
<1> QED
  BY <1>1, <1>2, <1>3, <1>4, <1>5, <1>6, <1>7, <1>8, <1>9 DEF Next

-----------------------------------------------------------------------------
(* Both.                                                                   *)

LEMMA KitStart == KitInit => KitInv
<1> SUFFICES ASSUME KitInit PROVE KitInv
  OBVIOUS
<1>1. TypeOK /\ WidthInv
  <2>1. None \notin Closures
    BY NoneAssumption DEF Closures
  <2> QED
    BY <2>1, DefaultOpenAssumption DEF KitInit, Init, TypeOK, WidthInv, States
<1>2. CarouselTypeOK /\ HeardInv
  <2>1. embla \in Instances /\ embla.at = 1
    BY DEF KitInit, CarouselInit, Mounted
  <2>2. embla.at <= embla.slides
    BY <2>1, MaxSlidesAssumption DEF Instances
  <2> QED
    BY <2>1, <2>2 DEF KitInit, CarouselInit, CarouselTypeOK, HeardInv, Ends
<1> QED
  BY <1>1, <1>2 DEF KitInv

LEMMA KitStep == KitInv /\ [KitNext]_<<vars, carouselVars>> => KitInv'
<1> SUFFICES ASSUME KitInv, [KitNext]_<<vars, carouselVars>> PROVE KitInv'
  OBVIOUS
<1>1. [Next]_vars /\ [CarouselNext]_carouselVars
  BY DEF KitNext
<1> QED
  BY <1>1, SidebarStep, CarouselStep DEF KitInv

LEMMA KitInductive == KitSpec => []KitInv
<1> QED
  BY KitStart, KitStep, PTL DEF KitSpec

\* Type correctness of both components, which includes that the shortcut's
\* listener is never out of date once all effects have run.
THEOREM KitTypeCorrect == KitSpec => [](TypeOK /\ CarouselTypeOK)
<1>1. KitInv => TypeOK /\ CarouselTypeOK
  BY DEF KitInv
<1> QED
  BY <1>1, KitInductive, PTL

\* The carousel's buttons are enabled exactly if its arrow keys would move it
\* (onSelect, registered for "select" and "reInit").
THEOREM ButtonsFollowTheCarousel == KitSpec => []ButtonsAgree
<1>1. KitInv => ButtonsAgree
  <2> SUFFICES ASSUME KitInv, heard, queued = canScroll
               PROVE  /\ canScroll.prev <=> Beside(embla, -1) # embla.at
                      /\ canScroll.next <=> Beside(embla, 1) # embla.at
    BY DEF ButtonsAgree
  <2>1. canScroll = CanScroll(embla)
    BY DEF KitInv, HeardInv
  <2> QED
    BY <2>1, Zenon DEF CanScroll
<1> QED
  BY <1>1, KitInductive, PTL

\* toggleSidebar flips what is on screen, from the trigger and from the keyboard.
THEOREM TogglesAreTrue == KitSpec => TogglesWhatIsShown
<1> DEFINE Flips ==
      Settled /\ (Click \/ Press) =>
       /\ Shown' # Shown
       /\ IF narrow
          THEN state'.open = state.open /\ cookie' = cookie /\ ~Tooltips'
          ELSE /\ state'.openMobile = state.openMobile
               /\ cookie' = state'.open /\ Tooltips' = ~Shown'
<1>1. KitInv /\ [KitNext]_<<vars, carouselVars>> => [Flips]_vars
  <2> SUFFICES ASSUME KitInv, Settled, Click \/ Press
               PROVE  Flips
    OBVIOUS
  <2>0. /\ narrow \in BOOLEAN /\ state \in States /\ pending = state
        /\ mounted /\ state.isMobile = narrow
        /\ key.open = state.open /\ key.isMobile = state.isMobile
    BY DEF KitInv, TypeOK, WidthInv, Settled
  <2>1. /\ Toggled(key, pending) = Toggled(state, pending)
        /\ Remembered(key) = Remembered(state)
    BY <2>0 DEF Toggled, Remembered
  <2>2. Commit(Toggled(state, state)) /\ cookie' = Remembered(state)
    BY <2>0, <2>1 DEF Click, Press
  <2>3. /\ state' = Toggled(state, state)
        /\ cookie' = Remembered(state)
    BY <2>0, <2>2 DEF Commit, MountReads
  <2>4. CASE narrow
    BY <2>0, <2>3, <2>4 DEF Toggled, Remembered, Shown, Tooltips, States
  <2>5. CASE ~narrow
    BY <2>0, <2>3, <2>5 DEF Toggled, Remembered, Shown, Tooltips, States
  <2> QED
    BY <2>0, <2>4, <2>5
<1> QED
  BY <1>1, KitInductive, PTL DEF KitSpec, TogglesWhatIsShown, Flips
=============================================================================
