------------------------------ MODULE Carousel ------------------------------
(***************************************************************************)
(* The carousel of the interface kit (components/ui/carousel.tsx): a       *)
(* wrapper that keeps, beside the Embla instance that does the scrolling,  *)
(* its own copy of whether there is a slide before and after this one, and *)
(* enables its buttons by it.                                              *)
(*                                                                         *)
(* Embla is a library, modelled by what the wrapper uses of it: the hook   *)
(* makes an instance when the viewport is mounted, and another when it is  *)
(* mounted again; the instance says whether it can scroll, and calls back  *)
(* on "select" (another slide) and on "reInit" (other slides or options).  *)
(***************************************************************************)
EXTENDS Integers

CONSTANT MaxSlides  \* bound: slides of the carousel

ASSUME MaxSlidesAssumption == MaxSlides \in Nat \ {0}

VARIABLES
  embla,     \* the instance: its slides, the selected one, the option `loop`
  known,     \* the last render has this instance
  heard,     \* its effects have run: the host has it, onSelect is registered
  canScroll, \* canScrollPrev and canScrollNext as rendered
  queued     \* ... and after the updates that wait to be rendered

carouselVars == <<embla, known, heard, canScroll, queued>>

Instances == [slides : 1..MaxSlides, at : 1..MaxSlides, loop : BOOLEAN]
Ends == [prev : BOOLEAN, next : BOOLEAN]

CarouselTypeOK ==
  /\ embla \in Instances /\ embla.at <= embla.slides
  /\ known \in BOOLEAN /\ heard \in BOOLEAN /\ (heard => known)
  /\ canScroll \in Ends /\ queued \in Ends

\* The neighbour of the selected slide, itself at an end that does not loop.
Beside(e, step) ==
  CASE e.at + step \in 1..e.slides -> e.at + step
    [] e.at + step > e.slides -> IF e.loop THEN 1 ELSE e.at
    [] OTHER -> IF e.loop THEN e.slides ELSE e.at

CanScroll(e) == [prev |-> Beside(e, -1) # e.at, next |-> Beside(e, 1) # e.at]

Mounted == {e \in Instances : e.at = 1}

\* Before the effect of the hook has run there is no instance to render with.
CarouselInit ==
  /\ embla \in Mounted
  /\ known = FALSE /\ heard = FALSE
  /\ canScroll = [prev |-> FALSE, next |-> FALSE] /\ queued = canScroll

-----------------------------------------------------------------------------
(* The wrapper.                                                            *)

\* onSelect(api)
OnSelect == queued' = CanScroll(embla')

\* Mutant: the slides may change unheard.
Hears_Select(event) == heard /\ event = "select"

\* What the effect subscribes onSelect to.
Hears(event) == heard /\ event \in {"reInit", "select"}

\* The render with the new instance: the callbacks use it from now on.
RenderApi ==
  /\ ~known /\ known' = TRUE
  /\ UNCHANGED <<embla, heard, canScroll, queued>>

\* Its effects: the host is given the instance, and onSelect is called and
\* registered; what the instance emitted until now was heard by nobody.
Subscribe ==
  /\ known /\ ~heard /\ heard' = TRUE
  /\ UNCHANGED <<embla, known, canScroll>>
  /\ OnSelect

RenderButtons ==
  /\ queued # canScroll /\ canScroll' = queued
  /\ UNCHANGED <<embla, known, heard, queued>>

\* api.scrollPrev() or scrollNext() in an event of the user, which is rendered
\* before the next one.  At an end, Embla does nothing.
Scroll(step) ==
  /\ heard /\ Beside(embla, step) # embla.at
  /\ embla' = [embla EXCEPT !.at = Beside(embla, step)]
  /\ IF Hears("select") THEN OnSelect ELSE UNCHANGED queued
  /\ canScroll' = queued'
  /\ UNCHANGED <<known, heard>>

\* CarouselPrevious and CarouselNext: disabled by what is rendered.
ClickPrevious == canScroll.prev /\ Scroll(-1)
ClickNext == canScroll.next /\ Scroll(1)

\* The arrow keys look at neither flag.
HandleKeyDown == Scroll(-1) \/ Scroll(1)

-----------------------------------------------------------------------------
(* Embla, and the host.                                                    *)

\* The instance becomes e and emits the event.
Emits(e, event) ==
  /\ embla' = e
  /\ IF Hears(event) THEN OnSelect ELSE UNCHANGED queued
  /\ UNCHANGED <<known, heard, canScroll>>

\* A drag, or the host through the instance it was given.
Select ==
  \E n \in 1..embla.slides \ {embla.at} : Emits([embla EXCEPT !.at = n], "select")

\* Slides come or go, or the options change; the selected slide is clamped.
ReInit ==
  \E n \in 1..MaxSlides, loop \in BOOLEAN :
    /\ <<n, loop>> # <<embla.slides, embla.loop>>
    /\ Emits([slides |-> n, loop |-> loop, at |-> IF embla.at > n THEN n ELSE embla.at],
             "reInit")

\* CarouselContent is mounted again: the hook destroys the instance and makes
\* another, which the wrapper learns of with its next render.  (The cleanup takes
\* back "select" only; the instance that is gone emits nothing any more.)
Remount ==
  /\ known
  /\ embla' \in Mounted /\ known' = FALSE /\ heard' = FALSE
  /\ UNCHANGED <<canScroll, queued>>

CarouselNext ==
  \/ RenderApi \/ Subscribe \/ RenderButtons
  \/ ClickPrevious \/ ClickNext \/ HandleKeyDown
  \/ Select \/ ReInit \/ Remount

-----------------------------------------------------------------------------
(* Properties.                                                             *)

\* The copy is never out of date for good: with effects and updates done, a
\* button is enabled exactly if its arrow key would move the carousel, also after
\* slides came or went, the viewport was mounted again, or the instance moved
\* between the render that made it known and the effect that subscribed.
ButtonsAgree ==
  heard /\ queued = canScroll =>
    /\ canScroll.prev <=> Beside(embla, -1) # embla.at
    /\ canScroll.next <=> Beside(embla, 1) # embla.at
=============================================================================
