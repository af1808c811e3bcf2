------------------------------- MODULE UiKit --------------------------------
(***************************************************************************)
(* A page with a sidebar and a carousel.  Both listen to the keyboard, the *)
(* sidebar for Ctrl+B at the window, the carousel for the arrows inside    *)
(* it; neither handler touches what the other one keeps.                   *)
(***************************************************************************)
EXTENDS Sidebar, Carousel

KitInit == Init /\ CarouselInit

KitNext ==
  \/ Next /\ UNCHANGED carouselVars
  \/ CarouselNext /\ UNCHANGED vars

KitSpec == KitInit /\ [][KitNext]_<<vars, carouselVars>>
=============================================================================
