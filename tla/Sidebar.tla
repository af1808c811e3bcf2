------------------------------ MODULE Sidebar -------------------------------
(***************************************************************************)
(* The sidebar kit of the console (components/ui/sidebar.tsx) and the hook *)
(* useIsMobile (hooks/use-mobile.tsx): a provider that keeps one state for *)
(* the wide layout, remembered in a cookie, and one for the sheet of the   *)
(* narrow layout, with a trigger, a rail and a keyboard shortcut that      *)
(* toggle whichever of the two is on screen.  The host does not control    *)
(* the sidebar (no `open` property).                                       *)
(*                                                                         *)
(* React: callbacks are closures over the render that made them.  A click  *)
(* or a key press is rendered before the next event, its effects included. *)
(* Updates from anywhere else wait for Render, and effects for             *)
(* FlushEffects, so that until then the window's keydown listener is the   *)
(* one of an earlier render.                                               *)
(***************************************************************************)
CONSTANTS
  DefaultOpen,  \* the property defaultOpen
  None          \* no cookie, no listener

ASSUME DefaultOpenAssumption == DefaultOpen \in BOOLEAN

\* None is neither a closure nor a value of the cookie.
ASSUME NoneAssumption ==
  None \notin BOOLEAN \cup [open : BOOLEAN, isMobile : BOOLEAN]

VARIABLES
  narrow,   \* the window is narrower than MOBILE_BREAKPOINT
  changed,  \* a "change" of the media query has not been delivered yet
  mounted,  \* the effects of the first render have run
  state,    \* what is rendered: open, openMobile, isMobile
  pending,  \* state after the updates that wait to be rendered
  effects,  \* the effects of the last render have not run
  key,      \* what the keydown listener closed over
  cookie

vars == <<narrow, changed, mounted, state, pending, effects, key, cookie>>

States == [open : BOOLEAN, openMobile : BOOLEAN, isMobile : BOOLEAN]
Closures == [open : BOOLEAN, isMobile : BOOLEAN]
Settled == pending = state /\ ~effects /\ ~changed

\* No listener before the effects of the mount, and none that is out of date
\* once all effects have run.
TypeOK ==
  /\ {narrow, changed, mounted, effects} \subseteq BOOLEAN
  /\ state \in States /\ pending \in States
  /\ key \in Closures \cup {None} /\ cookie \in BOOLEAN \cup {None}
  /\ key = None <=> ~mounted
  /\ ~mounted => effects /\ ~changed
  /\ ~effects => key.open = state.open /\ key.isMobile = state.isMobile

Init ==
  /\ narrow \in BOOLEAN /\ changed = FALSE
  /\ mounted = FALSE /\ effects = TRUE /\ key = None /\ cookie = None
  /\ state = [open |-> DefaultOpen, openMobile |-> FALSE, isMobile |-> FALSE]
  /\ pending = state

-----------------------------------------------------------------------------
(* useIsMobile.                                                            *)

\* The effect of the mount subscribes, and reads the width itself.
MountReads(st) == IF mounted THEN st ELSE [st EXCEPT !.isMobile = narrow]

\* The window crosses the breakpoint; twice before the event goes out is none.
Resize ==
  /\ narrow' = ~narrow
  /\ changed' = (mounted /\ ~changed)
  /\ UNCHANGED <<mounted, state, pending, effects, key, cookie>>

OnChange ==
  /\ changed /\ changed' = FALSE
  /\ pending' = [pending EXCEPT !.isMobile = narrow]
  /\ UNCHANGED <<narrow, mounted, state, effects, key, cookie>>

-----------------------------------------------------------------------------
(* SidebarProvider.                                                        *)

\* setOpen(value): the state, and the cookie.
SetOpen(st, value) ==
  /\ pending' = [st EXCEPT !.open = value]
  /\ cookie' = value

\* toggleSidebar, as closed over `seen`: an update function on a phone, the
\* negation of the closure's `open` otherwise.
Toggled(seen, st) ==
  IF seen.isMobile THEN [st EXCEPT !.openMobile = ~@]
  ELSE [st EXCEPT !.open = ~seen.open]
Remembered(seen) == IF seen.isMobile THEN cookie ELSE ~seen.open

\* Mutant: the effect has no dependencies and keeps its first listener.
Armed_Once(st) ==
  IF key = None THEN [open |-> st.open, isMobile |-> st.isMobile] ELSE key

\* The keydown effect of a render replaces the listener.
Armed(st) == [open |-> st.open, isMobile |-> st.isMobile]

\* Updates made outside of an event handler of the user are rendered ...
Render ==
  /\ pending # state
  /\ state' = pending /\ effects' = TRUE
  /\ UNCHANGED <<narrow, changed, mounted, pending, key, cookie>>

\* ... and the effects of the render run.
FlushEffects ==
  /\ effects /\ effects' = FALSE
  /\ mounted' = TRUE /\ pending' = MountReads(pending)
  /\ key' = Armed(state)
  /\ UNCHANGED <<narrow, changed, state, cookie>>

\* The user's event leads to st, rendered with all effects before the next event.
Commit(st) ==
  /\ pending' = MountReads(st) /\ state' = MountReads(st)
  /\ mounted' = TRUE /\ effects' = FALSE
  /\ key' = Armed(MountReads(st))
  /\ UNCHANGED <<narrow, changed>>

\* SidebarTrigger and SidebarRail: the handler of the render on screen.
Click == Commit(Toggled(state, pending)) /\ cookie' = Remembered(state)

\* Ctrl+B or Meta+B: the handler of the effect that ran last.
Press ==
  /\ key # None
  /\ Commit(Toggled(key, pending)) /\ cookie' = Remembered(key)

\* The sheet's overlay, close button or Escape: onOpenChange={setOpenMobile}.
CloseSheet ==
  /\ state.isMobile /\ state.openMobile
  /\ Commit([pending EXCEPT !.openMobile = FALSE]) /\ UNCHANGED cookie

\* The application opens or closes it through the context, from a timer or a reply.
HostSetsOpen(value) ==
  /\ SetOpen(pending, value)
  /\ UNCHANGED <<narrow, changed, mounted, state, effects, key>>

HostSetsOpenMobile(value) ==
  /\ pending' = [pending EXCEPT !.openMobile = value]
  /\ UNCHANGED <<narrow, changed, mounted, state, effects, key, cookie>>

Next ==
  \/ Resize \/ OnChange \/ Render \/ FlushEffects
  \/ Click \/ Press \/ CloseSheet
  \/ \E value \in BOOLEAN : HostSetsOpen(value) \/ HostSetsOpenMobile(value)

Spec == Init /\ [][Next]_vars

-----------------------------------------------------------------------------
(* Properties.                                                             *)

\* The Sidebar component: the sheet on a phone, the column otherwise.
Shown == IF state.isMobile THEN state.openMobile ELSE state.open

\* SidebarMenuButton: tooltips stand in for the labels of a collapsed column.
Tooltips == ~state.open /\ ~state.isMobile

\* A click and the shortcut do the same.  Once the updates, effects and events
\* under way are done they flip what is on screen and nothing else, however
\* application, user and window came there: in a narrow window the sheet, and
\* neither the column nor the choice remembered for it; in a wide one the column
\* and the cookie, and an entry has either its label or its tooltip.
TogglesWhatIsShown ==
  [][Settled /\ (Click \/ Press) =>
       /\ Shown' # Shown
       /\ IF narrow
          THEN state'.open = state.open /\ cookie' = cookie /\ ~Tooltips'
          ELSE /\ state'.openMobile = state.openMobile
               /\ cookie' = state'.open /\ Tooltips' = ~Shown']_vars
=============================================================================
