----------------------------- MODULE Pages_proofs -----------------------------
(***************************************************************************)
(* Proofs about Dropdown and Pages, for every number of toggles and of     *)
(* messages, and every layout of the page; and about the Carousel that a   *)
(* page shows beside them, for every number of items, with and without     *)
(* wrapping, and whatever is clicked how often; and about what lies over a *)
(* page (Overlays), for every number of calls and events.                  *)
(***************************************************************************)
EXTENDS Pages, Carousel, Overlays,
        FiniteSetTheorems, SequenceTheorems, WellFoundedInduction, TLAPS

-----------------------------------------------------------------------------
(* The menus.                                                              *)

MenuInv == TypeOKDropdown /\ OneMenu /\ BackdropWhileOpen

\* What becomes of the menus when those of asked are asked to hide and those of opened
\* are shown: all that was asked and stays open is kept.
LEMMA LeavesFacts ==
    ASSUME TypeOKDropdown, NEW asked \in SUBSET open, NEW prevented,
           NEW opened \in SUBSET (onPage \ disabled),
           Leaves(asked, prevented, opened), UNCHANGED pageVars, backdrop' \in BOOLEAN
    PROVE  /\ TypeOKDropdown'
           /\ open' \ (kept' \cup entered') = opened
           /\ open' \ kept' \subseteq opened \cup (open \ asked)
<1>1. /\ open' = (open \ (asked \ prevented)) \cup opened
      /\ expanded' = open'
      /\ kept' = (kept \cup (asked \cap prevented)) \ ((asked \ prevented) \cup opened)
      /\ entered' = (entered \cup (open \ asked)) \ ((asked \ prevented) \cup opened)
  BY DEF Leaves, TypeOKDropdown
<1>2. kept' \subseteq open' /\ entered' \subseteq open'
  BY <1>1 DEF TypeOKDropdown
<1>3. open' \subseteq onPage' \ disabled'
  BY <1>1 DEF TypeOKDropdown, pageVars
<1>4. open' \ (kept' \cup entered') = opened
  BY <1>1 DEF TypeOKDropdown
<1>5. open' \ kept' \subseteq opened \cup (open \ asked)
  BY <1>1
<1> QED  BY <1>1, <1>2, <1>3, <1>4, <1>5 DEF TypeOKDropdown, pageVars

\* clearMenus leaves no menu open but those whose hide was prevented.
LEMMA ClearKeeps ==
    ASSUME MenuInv, NEW prevented, ClearMenus(prevented), UNCHANGED pageVars
    PROVE  MenuInv'
<1>1. /\ TypeOKDropdown'
      /\ open' \ (kept' \cup entered') = {}
      /\ open' \ kept' \subseteq {}
  <2>1. Leaves(open, prevented, {}) /\ backdrop' \in BOOLEAN
    BY DEF ClearMenus
  <2>2. {} \in SUBSET (onPage \ disabled) /\ open \in SUBSET open
    OBVIOUS
  <2> QED  BY <2>1, <2>2, LeavesFacts DEF MenuInv
<1> QED  BY <1>1 DEF MenuInv, ClearMenus, OneMenu, BackdropWhileOpen

\* toggle leaves no other menu open but those, and gives the new one its backdrop.
LEMMA OpenKeeps ==
    ASSUME MenuInv, NEW prevented, NEW t \in onPage \ disabled, Open(t, prevented),
           UNCHANGED pageVars
    PROVE  MenuInv'
<1>1. /\ TypeOKDropdown'
      /\ open' \ (kept' \cup entered') = {t}
      /\ open' \ kept' \subseteq {t}
  <2>1. Leaves(open, prevented, {t}) /\ backdrop' \in BOOLEAN
    BY DEF Open, MenuInv, TypeOKDropdown
  <2>2. {t} \in SUBSET (onPage \ disabled) /\ open \in SUBSET open
    OBVIOUS
  <2> QED  BY <2>1, <2>2, LeavesFacts DEF MenuInv
<1>2. open' \ (Navbar \cup kept' \cup entered') = {t} \ Navbar
  BY <1>1
<1>3. backdrop' = (touch' /\ t \notin Navbar)
  BY DEF Open, pageVars
<1>4. BackdropWhileOpen'
  BY <1>2, <1>3 DEF BackdropWhileOpen
<1> QED  BY <1>1, <1>4 DEF MenuInv, OneMenu

\* A click in an input spares one menu, which is then alone among those not kept.
LEMMA ClickInputKeeps ==
    ASSUME MenuInv, NEW t \in onPage, NEW prevented, ClickInput(t, prevented),
           UNCHANGED pageVars
    PROVE  MenuInv'
<1>1. CASE ClearMenus(prevented)
  BY <1>1, ClearKeeps
<1>2. CASE Leaves(open \ {t}, prevented \ {t}, {}) /\ backdrop' = FALSE
  <2>1. {} \in SUBSET (onPage \ disabled) /\ open \ {t} \in SUBSET open
    OBVIOUS
  <2>2. /\ TypeOKDropdown'
        /\ open' \ (kept' \cup entered') = {}
        /\ open' \ kept' \subseteq {} \cup (open \ (open \ {t}))
    BY <1>2, <2>1, LeavesFacts DEF MenuInv
  <2> QED  BY <1>2, <2>2 DEF MenuInv, OneMenu, BackdropWhileOpen
<1> QED  BY <1>1, <1>2 DEF ClickInput

LEMMA TurnKeeps ==
    ASSUME MenuInv, NEW plain, NEW prevented, Turn(plain, prevented), UNCHANGED pageVars
    PROVE  MenuInv'
<1>1. CASE UNCHANGED <<open, expanded, backdrop, kept, entered>>
  BY <1>1 DEF MenuInv, TypeOKDropdown, OneMenu, BackdropWhileOpen, pageVars
<1>2. CASE ClickAway(prevented) \/ Escape(prevented)
  BY <1>2, ClearKeeps DEF ClickAway, Escape
<1>3. ASSUME NEW t \in onPage, ClickOpenToggle(t, prevented) \/ ShowPrevented(t, prevented)
      PROVE MenuInv'
  BY <1>3, ClearKeeps DEF ClickOpenToggle, ShowPrevented
<1>4. ASSUME NEW t \in onPage, ClickClosedToggle(t, prevented) PROVE MenuInv'
  BY <1>4, OpenKeeps DEF ClickClosedToggle
<1>5. ASSUME NEW t \in onPage, ClickInput(t, prevented) PROVE MenuInv'
  BY <1>5, ClickInputKeeps
<1>6. ASSUME NEW t \in onPage, Tab(t)
      PROVE UNCHANGED <<open, expanded, backdrop, kept, entered>>
  BY <1>6 DEF Tab
<1>7. ASSUME NEW key \in Keys, MoveFocus(key)
      PROVE UNCHANGED <<open, expanded, backdrop, kept, entered>>
  BY <1>7 DEF MoveFocus
<1> QED  BY <1>1, <1>2, <1>3, <1>4, <1>5, <1>6, <1>7 DEF Turn

LEMMA MenuInvInductive == Spec => []MenuInv
<1>1. Init => MenuInv
  <2> SUFFICES ASSUME Init PROVE MenuInv
    OBVIOUS
  <2>1. onPage \subseteq Toggles
    BY NumTogglesAssumption DEF Init, Toggles, Noti
  <2>2. open = {} /\ expanded = {} /\ kept = {} /\ entered = {} /\ backdrop = FALSE
        /\ touch \in BOOLEAN /\ disabled \subseteq onPage
    BY DEF Init, InitDropdown
  <2> QED  BY <2>1, <2>2 DEF MenuInv, TypeOKDropdown, OneMenu, BackdropWhileOpen
<1>2. MenuInv /\ [Next]_vars => MenuInv'
  <2> SUFFICES ASSUME MenuInv, [Next]_vars PROVE MenuInv'
    OBVIOUS
  <2>1. CASE UNCHANGED <<pageVars, open, expanded, backdrop, kept, entered>>
    BY <2>1 DEF MenuInv, TypeOKDropdown, OneMenu, BackdropWhileOpen, pageVars
  <2>2. CASE User
    BY <2>2, TurnKeeps DEF User
  <2>3. CASE DocumentReady \/ Load \/ OnOpen \/ Disconnected \/ OnMessage
    BY <2>1, <2>3 DEF DocumentReady, Load, OnOpen, Disconnected, OnMessage
  <2>4. CASE UNCHANGED vars
    BY <2>1, <2>4 DEF vars, menuVars
  <2> QED  BY <2>2, <2>3, <2>4 DEF Next
<1> QED  BY <1>1, <1>2, PTL DEF Spec

\* However many menus a page has, a click or a key leaves one of them open at most, but
\* for those whose listeners prevent their hiding.
THEOREM OneMenuAtATime == Spec => []OneMenu
<1>1. MenuInv => OneMenu
  BY DEF MenuInv
<1> QED  BY <1>1, MenuInvInductive, PTL

\* With touch events the backdrop is there just while a menu outside the navbar is open
\* that no click has yet tried to close.
THEOREM BackdropOfOpenMenu == Spec => []BackdropWhileOpen
<1>1. MenuInv => BackdropWhileOpen
  BY DEF MenuInv
<1> QED  BY <1>1, MenuInvInductive, PTL

-----------------------------------------------------------------------------
(* The console's notifications.                                            *)

\* No message is on the page before its listeners are bound, and one that is signalled
\* while the menu is open came after it was opened.
Signals ==
    /\ items \in [Toggles -> Nat]
    /\ console => onPage = {Noti} /\ disabled = {}
    /\ phase = "loading" => socket = "none"
    /\ console /\ phase = "loading" => items[Noti] = 0 /\ ~badge
    /\ console /\ Noti \in open => (badge => late)

SignalInv == MenuInv /\ Signals /\ UnreadIsSignalled

LEMMA NotiToggle == Noti \in Toggles
BY NumTogglesAssumption DEF Noti, Toggles

\* What a turn on the console tells its listeners: of one menu, that it was shown, or
\* that it was hidden, or nothing.
LEMMA ConsoleTurn ==
    ASSUME SignalInv, console, NEW prevented \in SUBSET {}, Turn(TRUE, prevented)
    PROVE  \/ /\ heard'.show = {Noti} /\ heard'.hide = {}
              /\ open' = {Noti}
           \/ /\ heard'.show = {} /\ heard'.hide = {Noti}
              /\ open' = {} /\ Noti \in open
           \/ /\ heard'.show = {} /\ heard'.hide = {}
              /\ open' = open
<1>1. open = {} \/ open = {Noti}
  BY DEF SignalInv, MenuInv, TypeOKDropdown, Signals
<1>2. ASSUME ClearMenus(prevented)
      PROVE  open' = {} /\ heard'.show = {} /\ heard'.hide = open
  BY <1>2 DEF ClearMenus, Leaves
<1>3. CASE ClearMenus(prevented)
  BY <1>1, <1>2, <1>3
<1>4. ASSUME NEW t \in onPage, ClickClosedToggle(t, prevented)
      PROVE  open' = {Noti} /\ heard'.show = {Noti} /\ heard'.hide = {}
  <2>1. t = Noti /\ open = {}
    BY <1>1, <1>4 DEF ClickClosedToggle, SignalInv, Signals
  <2> QED  BY <1>4, <2>1 DEF ClickClosedToggle, Open, Leaves
<1>5. ASSUME heard' = Nothing, UNCHANGED open
      PROVE  heard'.show = {} /\ heard'.hide = {} /\ open' = open
  BY <1>5 DEF Nothing
<1> QED  BY <1>3, <1>4, <1>5
         DEF Turn, ClickAway, Escape, ClickOpenToggle, Tab, MoveFocus

LEMMA SignalUser ==
    ASSUME SignalInv, User
    PROVE  Signals' /\ UnreadIsSignalled'
<1> USE DEF SignalInv
<1>1. /\ Listeners
      /\ UNCHANGED <<onPage, disabled, console, phase, socket, count>>
  BY DEF User, pageVars
<1>2. items' \in [Toggles -> Nat]
  BY <1>1, NotiToggle DEF Listeners, OnHide, Signals
<1>3. CASE ~console
  BY <1>1, <1>2, <1>3 DEF Signals, UnreadIsSignalled
<1>4. CASE console
  <2>1. PICK prevented \in SUBSET {} : Turn(TRUE, prevented)
    BY <1>4 DEF User
  <2>2. CASE phase = "loading"
    <3>1. UNCHANGED <<items, icon, badge, late>>
      BY <1>1, <2>2 DEF Listeners
    <3> QED  BY <1>1, <1>2, <1>4, <2>2, <3>1 DEF Signals, UnreadIsSignalled
  <2>3. CASE phase # "loading" /\ heard'.show = {Noti} /\ heard'.hide = {} /\ open' = {Noti}
    <3>1. badge' = FALSE /\ Noti \in open'
      BY <1>1, <1>4, <2>3 DEF Listeners, OnShow
    <3> QED  BY <1>1, <1>2, <1>4, <2>3, <3>1 DEF Signals, UnreadIsSignalled
  <2>4. CASE /\ phase # "loading" /\ heard'.show = {} /\ heard'.hide = {Noti}
             /\ open' = {} /\ Noti \in open
    <3>1. items' = [items EXCEPT ![Noti] = 0] /\ UNCHANGED <<icon, badge, late>>
      BY <1>1, <1>4, <2>4 DEF Listeners, OnHide
    <3>2. items'[Noti] = 0
      BY <3>1, NotiToggle DEF Signals
    <3> QED  BY <1>1, <1>2, <1>4, <2>4, <3>1, <3>2 DEF Signals, UnreadIsSignalled
  <2>5. CASE heard'.show = {} /\ heard'.hide = {} /\ open' = open
    <3>1. UNCHANGED <<items, icon, badge, late>>
      BY <1>1, <2>5 DEF Listeners
    <3> QED  BY <1>1, <1>2, <2>5, <3>1 DEF Signals, UnreadIsSignalled
  <2> QED  BY <1>4, <2>1, <2>2, <2>3, <2>4, <2>5, ConsoleTurn
<1> QED  BY <1>3, <1>4

LEMMA SignalMessage ==
    ASSUME SignalInv, OnMessage
    PROVE  Signals' /\ UnreadIsSignalled'
<1> USE DEF SignalInv
<1>1. /\ items' = [items EXCEPT ![Noti] = @ + 1]
      /\ icon' = "active" /\ badge' = TRUE
      /\ count' = items'[Noti] /\ late' = (Noti \in open)
      /\ UNCHANGED <<onPage, disabled, open, console, phase, socket>>
      /\ phase # "loading"
  BY DEF OnMessage, InformEvent, pageVars, Signals
<1>2. items' \in [Toggles -> Nat]
  BY <1>1, NotiToggle DEF Signals
<1> QED  BY <1>1, <1>2 DEF Signals, UnreadIsSignalled

\* What has arrived and has not been in front of the user is signalled, and counted.
THEOREM UnreadSignalled == Spec => []UnreadIsSignalled
<1>1. Init => Signals /\ UnreadIsSignalled
  <2> SUFFICES ASSUME Init PROVE Signals /\ UnreadIsSignalled
    OBVIOUS
  <2>1. items \in [Toggles -> Nat] /\ (console => items[Noti] = 0)
    BY MaxItemsAssumption, NotiToggle DEF Init
  <2>2. console => onPage = {Noti} /\ disabled = {}
    BY DEF Init
  <2>3. ~badge /\ open = {} /\ socket = "none"
    BY DEF Init, InitDropdown
  <2> QED  BY <2>1, <2>2, <2>3 DEF Signals, UnreadIsSignalled
<1>2. ASSUME MenuInv', SignalInv, [Next]_vars PROVE SignalInv'
  <2> USE <1>2 DEF SignalInv
  <2>1. CASE User
    BY <2>1, SignalUser
  <2>2. CASE OnMessage
    BY <2>2, SignalMessage
  <2>3. CASE DocumentReady \/ Load
    BY <2>3 DEF DocumentReady, Load, Signals, UnreadIsSignalled, pageVars
  <2>4. CASE OnOpen \/ Disconnected
    BY <2>4 DEF OnOpen, Disconnected, Signals, UnreadIsSignalled, pageVars
  <2>5. CASE UNCHANGED vars
    BY <2>5 DEF vars, pageVars, menuVars, consoleVars, Signals, UnreadIsSignalled
  <2> QED  BY <2>1, <2>2, <2>3, <2>4, <2>5 DEF Next
<1>3. MenuInv /\ Signals /\ UnreadIsSignalled => SignalInv
  BY DEF SignalInv
<1>4. SignalInv => UnreadIsSignalled
  BY DEF SignalInv
<1> QED  BY <1>1, <1>2, <1>3, <1>4, MenuInvInductive, PTL DEF Spec

-----------------------------------------------------------------------------
(* The carousel: its items.                                                *)

\* ShowsOneItem with the item named, and the types its steps need.
ShowInv ==
    /\ indicator \in Items
    /\ sliding \in BOOLEAN
    /\ queue \in Seq(Items)
    /\ DOMAIN pending = Items
    /\ \E item \in Items :
        /\ active = {item}
        /\ IF sliding
           THEN /\ pending[item] = <<indicator>> /\ indicator # item
                /\ \A other \in Items \ {item} : pending[other] = << >>
           ELSE /\ item = indicator
                /\ \A other \in Items : pending[other] = << >>

LEMMA ShownOf ==
    ASSUME NEW item, active = {item}
    PROVE  Shown = item
BY DEF Shown

LEMMA ShowsOf == ShowInv => ShowsOneItem
<1> SUFFICES ASSUME ShowInv PROVE ShowsOneItem
  OBVIOUS
<1> PICK item \in Items :
        /\ active = {item}
        /\ IF sliding
           THEN /\ pending[item] = <<indicator>> /\ indicator # item
                /\ \A other \in Items \ {item} : pending[other] = << >>
           ELSE /\ item = indicator
                /\ \A other \in Items : pending[other] = << >>
  BY DEF ShowInv
<1>1. Cardinality(active) = 1
  BY FS_Singleton
<1>2. Shown = item
  BY ShownOf
<1> QED  BY <1>1, <1>2 DEF ShowsOneItem

\* The next and the previous item are items.
LEMMA DirectionIsItem ==
    ASSUME ShowInv, NEW type
    PROVE  GetItemForDirection(type) \in Items
<1>1. PICK item \in Items : active = {item}
  BY DEF ShowInv
<1>2. Shown = item
  BY <1>1, ShownOf
<1>3. ASSUME NEW i \in Int PROVE i % NumItems \in Items
  BY <1>3, NumItemsAssumption DEF Items
<1>4. item \in Int /\ item + 1 \in Int /\ item + (-1) \in Int
  BY DEF Items
<1> QED  BY <1>2, <1>3, <1>4 DEF GetItemForDirection

\* A slide that begins leaves one item, and points to the other.
LEMMA MoveKeeps ==
    ASSUME ShowInv, ~sliding, NEW item \in Items \ active, MoveTo(item), queue' \in Seq(Items)
    PROVE  ShowInv'
<1> USE DEF ShowInv
<1>1. active = {indicator} /\ \A other \in Items : pending[other] = << >>
  OBVIOUS
<1>2. Shown = indicator
  BY <1>1, ShownOf
<1>3. CASE Supported
  <2>1. /\ sliding' = TRUE /\ indicator' = item /\ active' = active
        /\ pending' = [pending EXCEPT ![indicator] = Append(@, item)]
    BY <1>2, <1>3 DEF MoveTo, Bound
  <2>2. pending'[indicator] = <<item>>
    <3>1. Append(<< >>, item) = <<item>>
      OBVIOUS
    <3>2. pending'[indicator] = Append(pending[indicator], item)
      BY <2>1
    <3> QED  BY <1>1, <3>1, <3>2
  <2>3. \A other \in Items \ {indicator} : pending'[other] = << >>
    BY <1>1, <2>1
  <2> QED  BY <1>1, <2>1, <2>2, <2>3
<1>4. CASE ~Supported
  <2>1. sliding' = FALSE /\ indicator' = item /\ active' = {item} /\ pending' = pending
    BY <1>4 DEF MoveTo, Supported
  <2> QED  BY <1>1, <2>1
<1> QED  BY <1>3, <1>4

LEMMA ShowFrame == ShowInv /\ UNCHANGED showVars /\ queue' \in Seq(Items) => ShowInv'
BY DEF ShowInv, showVars

LEMMA SlideKeeps ==
    ASSUME ShowInv, ~sliding, NEW inst, NEW item \in Items, NEW isCycling,
           Slide(inst, item, isCycling), queue' \in Seq(Items)
    PROVE  ShowInv'
BY MoveKeeps, ShowFrame DEF Slide, Idle

LEMMA MovesKeep ==
    ASSUME ShowInv, NEW inst, NEW type, Move(inst, type), queue' \in Seq(Items)
    PROVE  ShowInv'
BY SlideKeeps, ShowFrame, DirectionIsItem DEF Move, Idle, ShowInv

LEMMA ToKeeps ==
    ASSUME ShowInv, NEW inst, NEW pos, To(inst, pos)
    PROVE  ShowInv'
<1>1. CASE pos \notin Items
  BY <1>1, ShowFrame DEF To, Idle, ShowInv
<1>2. CASE pos \in Items /\ sliding
  <2>1. queue' \in Seq(Items)
    BY <1>2, AppendProperties DEF To, ShowInv
  <2> QED  BY <1>2, <2>1, ShowFrame DEF To, Idle
<1>3. CASE pos \in Items /\ ~sliding
  BY <1>3, ShowFrame, SlideKeeps DEF To, ShowInv
<1> QED  BY <1>1, <1>2, <1>3 DEF ShowInv

LEMMA SlideEndsKeeps ==
    ASSUME ShowInv, NEW item \in Items, SlideEnds(item)
    PROVE  ShowInv'
<1> USE DEF ShowInv
<1>1. sliding /\ active = {item} /\ pending[item] = <<indicator>>
      /\ \A other \in Items \ {item} : pending[other] = << >>
  BY DEF SlideEnds
<1>2. active' = {indicator} /\ sliding' = FALSE /\ UNCHANGED <<indicator, queue>>
  <2>1. pending[item][1] = indicator
    BY <1>1
  <2>2. active' = (active \ {item}) \cup {pending[item][1]}
    BY DEF SlideEnds
  <2> QED  BY <1>1, <2>1, <2>2 DEF SlideEnds
<1>3. pending' = [pending EXCEPT ![item] = << >>]
  BY DEF SlideEnds, Ended
<1> QED  BY <1>1, <1>2, <1>3

LEMMA SlidKeeps ==
    ASSUME ShowInv, Slid
    PROVE  ShowInv'
<1>1. PICK k \in 0 .. Len(queue) :
        \/ k = Len(queue) /\ queue' = << >> /\ UNCHANGED showVars
        \/ /\ k < Len(queue)
           /\ queue[k + 1] \notin active
           /\ MoveTo(queue[k + 1])
           /\ queue' = SubSeq(queue, k + 2, Len(queue))
  BY DEF Slid
<1>2. CASE k = Len(queue) /\ queue' = << >> /\ UNCHANGED showVars
  BY <1>2, ShowFrame
<1>3. CASE /\ k < Len(queue)
           /\ queue[k + 1] \notin active
           /\ MoveTo(queue[k + 1])
           /\ queue' = SubSeq(queue, k + 2, Len(queue))
  <2>1. queue \in Seq(Items) /\ Len(queue) \in Nat /\ \A i \in 1 .. Len(queue) : queue[i] \in Items
    BY DEF ShowInv
  <2>2. queue[k + 1] \in Items \ active
    BY <1>3, <2>1
  <2>3. queue' \in Seq(Items)
    <3>1. \A i \in k + 2 .. Len(queue) : queue[i] \in Items
      BY <2>1
    <3> QED  BY <1>3, <2>1, <3>1, SubSeqProperties
  <2> QED  BY <1>3, <2>2, <2>3, MoveKeeps DEF Slid
<1> QED  BY <1>1, <1>2, <1>3

LEMMA ShowInvInductive == SpecCarousel => []ShowInv
<1>1. InitCarousel => ShowInv
  <2> SUFFICES ASSUME InitCarousel PROVE ShowInv
    OBVIOUS
  <2>1. 0 \in Items
    BY NumItemsAssumption DEF Items
  <2> QED  BY <2>1, ElementsAssumption DEF InitCarousel, InitTransition, ShowInv
<1>2. ASSUME ShowInv, [NextCarousel]_carouselVars PROVE ShowInv'
  <2> USE <1>2
  <2>0. queue \in Seq(Items)
    BY DEF ShowInv
  <2>1. ASSUME NEW type, ClickControl(type) \/ Keydown(type) PROVE ShowInv'
    BY <2>0, <2>1, MovesKeep DEF ClickControl, Keydown
  <2>2. ASSUME NEW pos, ClickIndicator(pos) PROVE ShowInv'
    BY <2>2, ToKeeps DEF ClickIndicator
  <2>3. CASE Tick
    BY <2>0, <2>3, MovesKeep DEF Tick
  <2>4. CASE \/ Ready /\ UNCHANGED <<loaded, instance, active, indicator, sliding, timerVars,
                                     hovered, queue, slidDue, clicks>>
             \/ LoadCarousel \/ MouseEnter \/ MouseLeave \/ CallPause \/ CallCycle \/ SlidTooLate
    BY <2>0, <2>4, ShowFrame DEF Ready, LoadCarousel, MouseEnter, MouseLeave, CallPause, CallCycle,
       SlidTooLate, showVars, transitionVars
  <2>5. CASE UNCHANGED carouselVars
    BY <2>0, <2>5, ShowFrame DEF carouselVars, showVars, transitionVars
  <2> QED  BY <2>1, <2>2, <2>3, <2>4, <2>5, SlideEndsKeeps, SlidKeeps DEF NextCarousel
<1> QED  BY <1>1, <1>2, PTL DEF SpecCarousel

\* One item is shown whatever is clicked while it slides, for every number of items and
\* however many slides wait for this one.
THEOREM OneItemShown == SpecCarousel => []ShowsOneItem
BY ShowInvInductive, ShowsOf, PTL

-----------------------------------------------------------------------------
(* The carousel: its timer.                                                *)

\* What cycle and pause leave.
LEMMA CycleKeeps ==
    ASSUME OneTimer, NEW inst, NEW isPaused, Cycle(inst, isPaused)
    PROVE  /\ OneTimer'
           /\ inst = "rides" /\ ~isPaused => interval' \in timers'
BY DEF OneTimer, Cycle

LEMMA PauseKeeps == OneTimer /\ Pause => OneTimer'
BY DEF OneTimer, Pause

\* The carousel is paused only by a script, and is made when the window is loaded, at the
\* latest.
RideInv ==
    /\ OneTimer
    /\ KeepsRiding
    /\ paused => stopped
    /\ loaded => instance # "none"

\* A step that leaves the timer alone, or sets it anew.
LEMMA TimerKeeps ==
    ASSUME RideInv, UNCHANGED timerVars \/ Restart(instance'), UNCHANGED hovered,
           loaded' => instance' # "none",
           loaded' => (loaded /\ instance' = instance) \/ Restart(instance')
    PROVE  RideInv'
<1>1. CASE UNCHANGED timerVars /\ (loaded' => loaded /\ instance' = instance)
  BY <1>1 DEF RideInv, OneTimer, KeepsRiding, timerVars
<1>2. CASE Restart(instance')
  BY <1>2, CycleKeeps DEF RideInv, KeepsRiding, Restart
<1> QED  BY <1>1, <1>2

LEMMA SlideTimer ==
    ASSUME NEW inst, NEW item, NEW isCycling, Slide(inst, item, isCycling)
    PROVE  UNCHANGED timerVars \/ Restart(inst)
BY DEF Slide, Idle

LEMMA MoveTimer ==
    ASSUME NEW inst, NEW type, Move(inst, type)
    PROVE  UNCHANGED timerVars \/ Restart(inst)
BY SlideTimer DEF Move, Idle

LEMMA ToTimer ==
    ASSUME NEW inst, NEW pos, To(inst, pos)
    PROVE  UNCHANGED timerVars \/ Restart(inst)
BY SlideTimer DEF To, Idle

LEMMA RideInvInductive == SpecCarousel => []RideInv
<1>1. InitCarousel => RideInv
  BY DEF InitCarousel, RideInv, OneTimer, KeepsRiding
<1>2. ASSUME RideInv, [NextCarousel]_carouselVars PROVE RideInv'
  <2> USE <1>2
  <2>0. loaded => instance # "none"
    BY DEF RideInv
  <2>1. ASSUME NEW type, ClickControl(type) PROVE RideInv'
    BY <2>0, <2>1, MoveTimer, TimerKeeps DEF ClickControl, Made
  <2>2. ASSUME NEW type, Keydown(type) PROVE RideInv'
    BY <2>0, <2>2, MoveTimer, TimerKeeps DEF Keydown
  <2>3. ASSUME NEW pos, ClickIndicator(pos) PROVE RideInv'
    BY <2>0, <2>3, ToTimer, TimerKeeps DEF ClickIndicator, Made
  <2>4. CASE Tick
    BY <2>0, <2>4, MoveTimer, TimerKeeps DEF Tick
  <2>5. CASE LoadCarousel
    BY <2>5, TimerKeeps DEF LoadCarousel, Made
  <2>6. CASE CallCycle
    BY <2>0, <2>6, TimerKeeps DEF CallCycle
  <2>7. CASE CallPause
    BY <2>7, PauseKeeps DEF CallPause, RideInv, KeepsRiding
  <2>8. CASE MouseEnter
    <3>1. OneTimer'
      BY <2>8, PauseKeeps DEF MouseEnter, RideInv, OneTimer
    <3> QED  BY <2>8, <3>1 DEF MouseEnter, RideInv, KeepsRiding
  <2>9. CASE MouseLeave
    <3>1. CASE instance = "none"
      BY <2>9, <3>1 DEF MouseLeave, RideInv, OneTimer, KeepsRiding
    <3>2. CASE instance # "none"
      BY <2>9, <3>2, CycleKeeps DEF MouseLeave, RideInv, KeepsRiding
    <3> QED  BY <3>1, <3>2
  <2>10. CASE Slid
    <3>1. UNCHANGED timerVars \/ Restart(instance)
      BY <2>10 DEF Slid
    <3> QED  BY <2>0, <2>10, <3>1, TimerKeeps DEF Slid
  <2>11. CASE UNCHANGED <<loaded, instance, timerVars, hovered>>
    BY <2>0, <2>11, TimerKeeps
  <2>12. CASE \/ Ready /\ UNCHANGED <<loaded, instance, active, indicator, sliding, timerVars,
                                      hovered, queue, slidDue, clicks>>
              \/ SlidTooLate
              \/ \E item \in Items : SlideEnds(item)
              \/ UNCHANGED carouselVars
    BY <2>11, <2>12 DEF SlidTooLate, SlideEnds, carouselVars
  <2> QED  BY <2>1, <2>2, <2>3, <2>4, <2>5, <2>6, <2>7, <2>8, <2>9, <2>10, <2>12 DEF NextCarousel
<1> QED  BY <1>1, <1>2, PTL DEF SpecCarousel

\* No timer is ever left running that the carousel does not know of.
THEOREM NoTimerLeftBehind == SpecCarousel => []OneTimer
<1>1. RideInv => OneTimer
  BY DEF RideInv
<1> QED  BY <1>1, RideInvInductive, PTL

\* A loaded carousel that is to ride has its timer, unless the pointer or a script holds it.
THEOREM RidesOn == SpecCarousel => []KeepsRiding
<1>1. RideInv => KeepsRiding
  BY DEF RideInv
<1> QED  BY <1>1, RideInvInductive, PTL

-----------------------------------------------------------------------------
(* Overlays: induction over the steps in which handlers are run, one after *)
(* the other, at the end of a transition.                                  *)

Precedes == {ss \in Nat \X Nat : ss[1] < ss[2]}

LEMMA NumbersAreWellFounded == IsWellFoundedOn(Precedes, Nat)
BY NatLessThanWellFounded DEF OpToRel, Precedes

\* What holds of 0, and of every number up to n if of the one before it, holds up to n.
LEMMA UpTo ==
    ASSUME NEW n \in Nat, NEW S, 0 \in S, \A i \in 1 .. n : i - 1 \in S => i \in S
    PROVE  0 .. n \subseteq S
<1> SUFFICES ASSUME 0 .. n \ S # {} PROVE FALSE
  OBVIOUS
<1>1. PICK q \in 0 .. n \ S : \A r \in 0 .. n \ S : ~(<<r, q>> \in Precedes)
  <2>1. 0 .. n \ S \subseteq Nat
    OBVIOUS
  <2> QED  BY <2>1, NumbersAreWellFounded, WFMin
<1>2. q # 0 /\ q \in 1 .. n /\ q - 1 \in 0 .. n /\ <<q - 1, q>> \in Precedes
  BY <1>1 DEF Precedes
<1> QED  BY <1>1, <1>2

-----------------------------------------------------------------------------
(* The modal.  RunAll is a function that is defined by recursion: it has a *)
(* value, and that value goes from handler to handler.                     *)

IsRun(f, p, handlers, n) ==
    f = [i \in 0 .. n |-> IF i = 0 THEN p ELSE M!Run(f[i - 1], handlers[i])]

LEMMA ModalRunExists ==
    ASSUME NEW p, NEW handlers, NEW len \in Nat
    PROVE  \E f : IsRun(f, p, handlers, len)
<1> DEFINE Is(f, n) == f = [i \in 0 .. n |-> IF i = 0 THEN p ELSE M!Run(f[i - 1], handlers[i])]
           S == {n \in 0 .. len : \E f : Is(f, n)}
<1>1. 0 \in S
  <2> DEFINE g == [i \in 0 .. 0 |-> p]
  <2>1. Is(g, 0)
    <3>1. \A i \in 0 .. 0 : g[i] = IF i = 0 THEN p ELSE M!Run(g[i - 1], handlers[i])
      OBVIOUS
    <3> QED  BY <3>1
  <2>2. \E f : Is(f, 0)
    <3> HIDE DEF g
    <3> QED  BY <2>1
  <2> QED  BY <2>2
<1>2. ASSUME NEW n \in 1 .. len, n - 1 \in S
      PROVE  n \in S
  <2>1. PICK f : Is(f, n - 1)
    BY <1>2
  <2> DEFINE g == [i \in 0 .. n |-> IF i = n THEN M!Run(f[n - 1], handlers[n]) ELSE f[i]]
  <2>2. \A i \in 0 .. n : g[i] = IF i = 0 THEN p ELSE M!Run(g[i - 1], handlers[i])
    <3> TAKE i \in 0 .. n
    <3>1. \A j \in 0 .. n - 1 : f[j] = IF j = 0 THEN p ELSE M!Run(f[j - 1], handlers[j])
      BY <2>1
    <3>2. CASE i = n
      BY <3>2
    <3>3. CASE i # n
      BY <3>1, <3>3
    <3> QED  BY <3>2, <3>3
  <2>3. Is(g, n)
    BY <2>2
  <2>4. \E h : Is(h, n)
    <3> HIDE DEF g
    <3> QED  BY <2>3
  <2> QED  BY <2>4
<1>3. len \in S
  <2> HIDE DEF S
  <2> QED  BY <1>1, <1>2, UpTo
<1>4. \E f : Is(f, len)
  BY <1>3
<1> QED  BY <1>4 DEF IsRun

\* The pages between the handlers.
Runs(step, p, handlers) ==
    /\ step[0] = p
    /\ \A i \in 1 .. Len(handlers) : step[i] = M!Run(step[i - 1], handlers[i])
    /\ M!RunAll(p, handlers) = step[Len(handlers)]

LEMMA ModalRunsAll ==
    ASSUME NEW p, NEW handlers, Len(handlers) \in Nat
    PROVE  \E step : Runs(step, p, handlers)
<1> DEFINE step == CHOOSE f : IsRun(f, p, handlers, Len(handlers))
<1>1. IsRun(step, p, handlers, Len(handlers))
  BY ModalRunExists, Zenon
<1>2. M!RunAll(p, handlers) = step[Len(handlers)]
  BY DEF M!RunAll, IsRun
<1> HIDE DEF step
<1>3. Runs(step, p, handlers)
  BY <1>1, <1>2 DEF IsRun, Runs
<1> QED  BY <1>3

LEMMA RunsOne ==
    ASSUME NEW p, NEW handler
    PROVE  M!RunAll(p, <<handler>>) = M!Run(p, handler)
<1>1. Len(<<handler>>) = 1 /\ <<handler>>[1] = handler
  OBVIOUS
<1>2. PICK step : Runs(step, p, <<handler>>)
  BY <1>1, ModalRunsAll
<1> QED  BY <1>1, <1>2 DEF Runs

LEMMA RunsTwo ==
    ASSUME NEW p, NEW first, NEW second
    PROVE  M!RunAll(p, <<first, second>>) = M!Run(M!Run(p, first), second)
<1> DEFINE both == <<first, second>>
<1>1. Len(both) = 2 /\ both[1] = first /\ both[2] = second
  OBVIOUS
<1> HIDE DEF both
<1>2. PICK step : Runs(step, p, both)
  BY <1>1, ModalRunsAll
<1>3. step[1] = M!Run(step[0], both[1]) /\ step[2] = M!Run(step[1], both[2])
  BY <1>1, <1>2 DEF Runs
<1>4. M!RunAll(p, both) = M!Run(M!Run(p, first), second)
  BY <1>1, <1>2, <1>3 DEF Runs
<1> QED  BY <1>4 DEF both

\* The handlers of the dialog change nothing.
LEMMA RunsShown ==
    ASSUME NEW p, NEW handlers \in Seq({"shown"})
    PROVE  M!RunAll(p, handlers) = p
<1>1. Len(handlers) \in Nat /\ \A i \in 1 .. Len(handlers) : handlers[i] = "shown"
  BY ElementOfSeq, LenProperties
<1>2. PICK step : Runs(step, p, handlers)
  BY <1>1, ModalRunsAll
<1> DEFINE S == {i \in 0 .. Len(handlers) : step[i] = p}
<1>3. 0 \in S
  BY <1>1, <1>2 DEF Runs
<1>4. ASSUME NEW i \in 1 .. Len(handlers), i - 1 \in S PROVE i \in S
  BY <1>1, <1>2, <1>4 DEF Runs, M!Run
<1>5. Len(handlers) \in S
  <2> HIDE DEF S
  <2>1. \A i \in 1 .. Len(handlers) : i - 1 \in S => i \in S
    BY <1>4
  <2>2. 0 .. Len(handlers) \subseteq S
    BY <1>1, <1>3, <2>1, UpTo
  <2> QED  BY <1>1, <2>2
<1> QED  BY <1>2, <1>5 DEF S, Runs

-----------------------------------------------------------------------------
(* What a page with a modal can be.                                        *)

ModalHandlers == {"shown", "hideModal", "display", "remove"}

ModalFields == {
    "isShown", "backdrop", "ignoreBackdropClick", "originalBodyPad", "backdrops", "visible",
    "in", "modalOpen", "bodyPad", "escape", "dismiss", "backdropClicks", "focusin", "onShow",
    "onHidden", "pending"}

ModalTyped(p) ==
    /\ DOMAIN p = ModalFields
    /\ p.isShown \in BOOLEAN
    /\ p.backdrop \in {0} \cup M!Backdrops
    /\ p.originalBodyPad = 0
    /\ p.pending \in [M!Elements -> Seq(ModalHandlers)]

\* The handlers that wait for the backdrop.
Waiting(p) == IF p.backdrop = 0 THEN << >> ELSE p.pending[p.backdrop]

\* There is no backdrop but this.$backdrop; without transitions nothing waits.
Fits(p) ==
    /\ ModalTyped(p)
    /\ p.backdrops = IF p.backdrop = 0 THEN {} ELSE {p.backdrop}
    /\ \A b \in M!Backdrops \ {p.backdrop} : p.pending[b] = << >>
    /\ p.pending[M!Dialog] \in Seq({"shown"})
    /\ M!Animated \/ \A el \in M!Elements : p.pending[el] = << >>

\* Of four kinds of page, until show is called during a hide.  h is hasty: what show has
\* left to do may come after hide.  The modal is shown, or its backdrop is on its way.
Up(p) ==
    /\ p.isShown /\ p.modalOpen /\ p.dismiss /\ p.escape = options.keyboard
    /\ p.backdropClicks = IF options.backdrop = "false" THEN 0 ELSE 1
    /\ p.backdrop = 0 <=> options.backdrop = "false"
    /\ p.pending[M!Element] = << >>
    /\ \/ Waiting(p) = <<"display">>
       \/ Waiting(p) = << >> /\ p.visible /\ p.in /\ p.focusin

\* hide has been called: hideModal waits for the modal.
Going(p, h) ==
    /\ ~p.isShown /\ p.backdropClicks = 0
    /\ p.pending[M!Element] = <<"hideModal">>
    /\ \/ Waiting(p) = <<"display">> /\ h
       \/ Waiting(p) = << >> /\ (h \/ (~p.in /\ ~p.focusin))

\* The modal has gone, its backdrop is going.
Fading(p, h) ==
    /\ ~p.isShown /\ p.backdropClicks = 0
    /\ p.backdrop # 0
    /\ p.pending[M!Element] = << >>
    /\ \/ Waiting(p) = <<"display", "remove">> /\ h
       \/ Waiting(p) = <<"remove">> /\ (h \/ (~p.visible /\ ~p.in /\ ~p.focusin))

\* Nothing is left.
Away(p, h) ==
    /\ ~p.isShown /\ p.backdropClicks = 0
    /\ p.backdrop = 0
    /\ p.pending[M!Element] = << >>
    /\ ~p.modalOpen /\ p.bodyPad = 0 /\ ~p.onHidden
    /\ h \/ (~p.visible /\ ~p.in /\ ~p.focusin)

Good(p, h) == Fits(p) /\ (Up(p) \/ Going(p, h) \/ Fading(p, h) \/ Away(p, h))

ModalOptions ==
    transition \in {"undefined", "event", "false"} /\ options \in M!Options /\ scrolls \in BOOLEAN

LEMMA ModalElements ==
    /\ M!Element \in M!Elements /\ M!Dialog \in M!Elements /\ M!Backdrops \subseteq M!Elements
    /\ M!Element \notin M!Backdrops /\ M!Dialog \notin M!Backdrops /\ M!Element # M!Dialog
    /\ 0 \notin M!Backdrops
    /\ \A el \in M!Elements : el = M!Element \/ el = M!Dialog \/ el \in M!Backdrops
BY DEF M!Element, M!Dialog, M!Backdrops, M!Elements

LEMMA OneThenTwo ==
    ASSUME NEW a, NEW b
    PROVE  Append(<<a>>, b) = <<a, b>> /\ Append(<< >>, b) = <<b>>
<1> DEFINE s == <<a>>
           t == Append(s, b)
<1>1. s \in Seq({a, b}) /\ Len(s) = 1 /\ s[1] = a
  OBVIOUS
<1>2. t \in Seq({a, b}) /\ Len(t) = 2 /\ t[1] = a /\ t[2] = b
  <2> HIDE DEF s
  <2>1. b \in {a, b} /\ 1 \in 1 .. Len(s)
    BY <1>1
  <2>2. t \in Seq({a, b}) /\ Len(t) = Len(s) + 1 /\ t[Len(s) + 1] = b
    BY <1>1, <2>1, AppendProperties
  <2>3. t[1] = s[1]
    BY <1>1, <2>1, AppendProperties
  <2> QED  BY <1>1, <2>2, <2>3
<1>3. t = <<a, b>>
  <2> HIDE DEF t
  <2>1. <<a, b>> \in Seq({a, b}) /\ Len(<<a, b>>) = 2 /\ <<a, b>>[1] = a /\ <<a, b>>[2] = b
    OBVIOUS
  <2> DEFINE both == <<a, b>>
  <2> HIDE DEF both
  <2>2. t = both
    BY <1>2, <2>1, SeqEqual DEF both
  <2> QED  BY <2>2 DEF both
<1> QED  BY <1>3

LEMMA SomeBackdrop == \E b : b \in M!Backdrops
BY MaxCallsAssumption DEF M!Backdrops

\* What is bound to an element, and taken from it.
LEMMA EndedIs ==
    ASSUME NEW pend \in [M!Elements -> Seq(ModalHandlers)], NEW el \in M!Elements
    PROVE  /\ M!T!Ended(pend, el) \in [M!Elements -> Seq(ModalHandlers)]
           /\ \A other \in M!Elements :
                  M!T!Ended(pend, el)[other] = IF other = el THEN << >> ELSE pend[other]
<1>1. << >> \in Seq(ModalHandlers)
  BY EmptySeq
<1> QED  BY <1>1 DEF M!T!Ended

LEMMA BoundIs ==
    ASSUME NEW pend \in [M!Elements -> Seq(ModalHandlers)], NEW el \in M!Elements,
           NEW handler \in ModalHandlers
    PROVE  /\ M!T!Bound(pend, el, handler) \in [M!Elements -> Seq(ModalHandlers)]
           /\ \A other \in M!Elements : M!T!Bound(pend, el, handler)[other] =
                  IF other = el THEN Append(pend[el], handler) ELSE pend[other]
<1>1. Append(pend[el], handler) \in Seq(ModalHandlers)
  BY AppendProperties
<1> QED  BY <1>1 DEF M!T!Bound

\* hideModal, without a transition: everything is put away.
LEMMA PutAway ==
    ASSUME NEW p, NEW h, Fits(p), ~p.isShown, p.backdropClicks = 0,
           p.pending[M!Element] = << >>, h \/ (~p.visible /\ ~p.in /\ ~p.focusin)
    PROVE  LET u == M!Unlock(M!RemoveBackdrop(p)) IN Fits(u) /\ Away(u, h)
<1> USE ModalElements
<1>1. CASE p.backdrop = 0
  BY <1>1 DEF Fits, Away, M!Unlock, M!RemoveBackdrop, ModalTyped, ModalFields
<1>2. CASE p.backdrop # 0
  <2> DEFINE ended == M!T!Ended(p.pending, p.backdrop)
             r == [p EXCEPT !.backdrop = 0, !.backdrops = {}, !.pending = ended]
             u == M!Unlock(r)
  <2>1. /\ p.backdrop \in M!Backdrops /\ p.backdrop \in M!Elements
        /\ p.pending \in [M!Elements -> Seq(ModalHandlers)]
    BY <1>2 DEF Fits, ModalTyped
  <2>2. M!RemoveBackdrop(p) = r
    BY <1>2 DEF M!RemoveBackdrop, Fits, ModalTyped, ModalFields
  <2>3. /\ ended \in [M!Elements -> Seq(ModalHandlers)]
        /\ \A el \in M!Elements : ended[el] = IF el = p.backdrop THEN << >> ELSE p.pending[el]
    BY <2>1, EndedIs
  <2> HIDE DEF ended
  <2>4. /\ ModalTyped(u)
        /\ u.backdrop = 0 /\ u.backdrops = {} /\ u.pending = ended
        /\ u.modalOpen = FALSE /\ u.bodyPad = 0 /\ u.onHidden = FALSE
        /\ u.isShown = p.isShown /\ u.backdropClicks = p.backdropClicks
        /\ u.visible = p.visible /\ u.in = p.in /\ u.focusin = p.focusin
    BY <2>3 DEF Fits, M!Unlock, ModalTyped, ModalFields
  <2> HIDE DEF u
  <2>5. Fits(u)
    BY <1>2, <2>1, <2>3, <2>4 DEF Fits
  <2>6. Away(u, h)
    BY <1>2, <2>1, <2>3, <2>4 DEF Fits, Away
  <2> QED  BY <2>2, <2>5, <2>6 DEF u
<1> QED  BY <1>1, <1>2

\* The callback of show: nothing changes but what can be seen, and the dialog waits.
LEMMA DisplayKeeps ==
    ASSUME NEW p, Fits(p)
    PROVE  LET d == M!Display(p) IN
           /\ Fits(d)
           /\ d.visible /\ d.in /\ d.focusin
           /\ d.isShown = p.isShown /\ d.modalOpen = p.modalOpen /\ d.dismiss = p.dismiss
           /\ d.escape = p.escape /\ d.backdropClicks = p.backdropClicks
           /\ d.backdrop = p.backdrop
           /\ Waiting(d) = Waiting(p) /\ d.pending[M!Element] = p.pending[M!Element]
<1> USE ModalElements
<1> DEFINE d == M!Display(p)
           bound == M!T!Bound(p.pending, M!Dialog, "shown")
<1>1. CASE M!Animated
  <2>0. p.pending \in [M!Elements -> Seq(ModalHandlers)] /\ "shown" \in ModalHandlers
    BY DEF Fits, ModalTyped, ModalHandlers
  <2>1. /\ bound \in [M!Elements -> Seq(ModalHandlers)]
        /\ \A el \in M!Elements : bound[el] =
               IF el = M!Dialog THEN Append(p.pending[M!Dialog], "shown") ELSE p.pending[el]
    BY <2>0, BoundIs
  <2>2. Append(p.pending[M!Dialog], "shown") \in Seq({"shown"})
    BY AppendProperties DEF Fits
  <2>3. d = [p EXCEPT !.visible = TRUE, !.in = TRUE, !.focusin = TRUE, !.pending = bound]
    BY <1>1 DEF M!Display, M!Wait, Fits, ModalTyped, ModalFields
  <2> HIDE DEF bound
  <2>4. /\ ModalTyped(d)
        /\ d.backdrops = p.backdrops /\ d.pending = bound
        /\ d.visible = TRUE /\ d.in = TRUE /\ d.focusin = TRUE
        /\ d.isShown = p.isShown /\ d.modalOpen = p.modalOpen /\ d.dismiss = p.dismiss
        /\ d.escape = p.escape /\ d.backdropClicks = p.backdropClicks
        /\ d.backdrop = p.backdrop
    BY <2>1, <2>3 DEF Fits, ModalTyped, ModalFields
  <2> HIDE DEF d
  <2>5. Fits(d)
    BY <1>1, <2>1, <2>2, <2>4 DEF Fits
  <2>6. Waiting(d) = Waiting(p) /\ d.pending[M!Element] = p.pending[M!Element]
    BY <2>1, <2>4 DEF Fits, Waiting, ModalTyped
  <2> QED  BY <2>4, <2>5, <2>6 DEF d
<1>2. CASE ~M!Animated
  BY <1>2 DEF M!Display, Fits, Waiting, ModalTyped, ModalFields
<1> QED  BY <1>1, <1>2

\* backdrop, called by show.
LEMMA BackdropMade ==
    ASSUME ModalOptions, NEW o, Fits(o), o.isShown, o.modalOpen, o.dismiss, o.escape = options.keyboard,
           o.backdropClicks = 0, o.backdrop = 0, o.pending[M!Element] = << >>
    PROVE  Fits(M!Backdrop(o, "display")) /\ Up(M!Backdrop(o, "display"))
<1> USE ModalElements
<1>1. CASE options.backdrop = "false"
  <2>1. M!Backdrop(o, "display") = M!Display(o)
    BY <1>1 DEF M!Backdrop, M!Callback, Fits, ModalTyped
  <2>2. Waiting(o) = << >>
    BY DEF Waiting
  <2> HIDE DEF Waiting
  <2> DEFINE d == M!Display(o)
  <2>3. Fits(d) /\ Up(d)
    BY <1>1, <2>2, DisplayKeeps DEF Up
  <2> QED  BY <2>1, <2>3
<1>2. CASE options.backdrop # "false"
  <2> DEFINE madeOf(b) == [o EXCEPT !.backdrop = b, !.backdrops = @ \cup {b}, !.backdropClicks = @ + 1]
  <2>1. PICK new \in M!Backdrops :
            M!Backdrop(o, "display") =
                IF M!Animated THEN M!Wait(madeOf(new), new, "display") ELSE M!Display(madeOf(new))
    <3> DEFINE first == CHOOSE b \in M!Backdrops \ o.backdrops : TRUE
    <3>1. first \in M!Backdrops
      BY SomeBackdrop DEF Fits
    <3>2. M!Backdrop(o, "display") =
              IF M!Animated THEN M!Wait(madeOf(first), first, "display") ELSE M!Display(madeOf(first))
      BY <1>2 DEF M!Backdrop, M!MakeBackdrop, M!Callback
    <3> HIDE DEF first, madeOf
    <3> QED  BY <3>1, <3>2
  <2> DEFINE made == madeOf(new)
  <2>2. M!Backdrop(o, "display") = IF M!Animated THEN M!Wait(made, new, "display") ELSE M!Display(made)
    BY <2>1
  <2>2a. o.backdrops = {} /\ {} \cup {new} = {new} /\ DOMAIN o = ModalFields
    BY DEF Fits, ModalTyped
  <2>2b. made = [o EXCEPT !.backdrop = new, !.backdrops = {new}, !.backdropClicks = 1]
    BY <2>2a DEF ModalFields
  <2>3. /\ ModalTyped(made)
        /\ made.backdrop = new /\ made.backdrops = {new} /\ made.backdropClicks = 1
        /\ made.isShown = o.isShown /\ made.modalOpen = o.modalOpen /\ made.dismiss = o.dismiss
        /\ made.escape = o.escape /\ made.pending = o.pending
    <3> HIDE DEF made
    <3> QED  BY <2>1, <2>2b DEF Fits, ModalTyped, ModalFields
  <2>4. Fits(made) /\ Waiting(made) = << >>
    BY <2>1, <2>3 DEF Fits, Waiting
  <2> HIDE DEF made
  <2>5. CASE ~M!Animated
    <3> DEFINE d == M!Display(made)
    <3>1. Fits(d) /\ Up(d)
      BY <1>2, <2>1, <2>3, <2>4, DisplayKeeps DEF Up
    <3> QED  BY <2>2, <2>5, <3>1
  <2>6. CASE M!Animated
    <3> DEFINE bound == M!T!Bound(o.pending, new, "display")
               w == [made EXCEPT !.pending = bound]
    <3>0. /\ new \in M!Elements /\ "display" \in ModalHandlers
          /\ o.pending \in [M!Elements -> Seq(ModalHandlers)]
      BY <2>1 DEF Fits, ModalTyped, ModalHandlers
    <3>1. /\ bound \in [M!Elements -> Seq(ModalHandlers)]
          /\ \A el \in M!Elements : bound[el] =
                 IF el = new THEN Append(o.pending[new], "display") ELSE o.pending[el]
      BY ONLY <3>0, BoundIs
    <3>2. o.pending[new] = << >> /\ Append(<< >>, "display") = <<"display">>
      BY <2>1, <2>3, <2>4 DEF Waiting
    <3>3. M!Wait(made, new, "display") = w
      <4>1. M!Wait(made, new, "display") = [made EXCEPT !.pending = M!T!Bound(made.pending, new, "display")]
        BY <2>3 DEF M!Wait, ModalTyped, ModalFields
      <4> QED  BY <2>3, <4>1
    <3> HIDE DEF bound
    <3>4. /\ ModalTyped(w) /\ w.pending = bound
          /\ w.backdrop = new /\ w.backdrops = {new} /\ w.backdropClicks = 1
          /\ w.isShown = o.isShown /\ w.modalOpen = o.modalOpen /\ w.dismiss = o.dismiss
          /\ w.escape = o.escape
      BY <2>3, <3>1 DEF ModalTyped, ModalFields
    <3> HIDE DEF w
    <3>5. Fits(w)
      <4>1. /\ \A b \in M!Backdrops : o.pending[b] = << >>
            /\ o.pending[M!Dialog] \in Seq({"shown"})
        BY DEF Fits
      <4>2. /\ \A b \in M!Backdrops \ {new} : w.pending[b] = << >>
            /\ w.pending[M!Dialog] \in Seq({"shown"})
        BY ONLY <2>1, <3>1, <3>4, <4>1, ModalElements
      <4> QED  BY <2>6, <3>4, <4>2, ModalElements DEF Fits
    <3>6. Up(w)
      BY <1>2, <2>1, <2>3, <3>1, <3>2, <3>4 DEF Up, Waiting
    <3> QED  BY <2>2, <2>6, <3>3, <3>5, <3>6
  <2> QED  BY <2>5, <2>6
<1> QED  BY <1>1, <1>2

LEMMA BackdropShown ==
    ASSUME NEW o, DOMAIN o = ModalFields, o.isShown
    PROVE  M!Backdrop(o, "display").isShown
BY DEF M!Backdrop, M!MakeBackdrop, M!Callback, M!Display, M!Wait, ModalFields

\* show leads from a page where nothing is left to one that is up; elsewhere the modal is
\* shown already, or it is being hidden, which reopened remembers.
LEMMA ModalShowKeeps ==
    ASSUME ModalOptions, NEW p, NEW h, Good(p, h), NEW prevented \in BOOLEAN
    PROVE  LET s == M!Show(p, prevented) IN
           /\ s.isShown <=> p.isShown \/ ~prevented
           /\ p.isShown \/ prevented => Good(s, h)
           /\ Away(p, h) /\ ~prevented => Good(s, FALSE)
<1> DEFINE s == M!Show(p, prevented)
           listened == M!ShowEvent(p, prevented)
           opened == [M!SetScrollbar(listened) EXCEPT !.isShown = TRUE, !.modalOpen = TRUE,
                                                   !.escape = options.keyboard, !.dismiss = TRUE]
<1>1. CASE p.isShown \/ prevented
  <2>1. s = listened
    BY <1>1 DEF M!Show
  <2>2. /\ ModalTyped(listened) /\ listened.isShown = p.isShown
        /\ listened = [p EXCEPT !.onShow = FALSE, !.onHidden = @ \/ (p.onShow /\ ~prevented)]
    BY DEF M!ShowEvent, Good, Fits, ModalTyped, ModalFields
  <2> QED  BY <1>1, <2>1, <2>2 DEF Good, Fits, Up, Going, Fading, Away, Waiting, ModalTyped, ModalFields
<1>2. CASE ~p.isShown /\ ~prevented
  <2>1. s = M!Backdrop(opened, "display") /\ DOMAIN opened = ModalFields /\ opened.isShown
    BY <1>2 DEF M!Show, M!SetScrollbar, M!ShowEvent, Good, Fits, ModalTyped, ModalFields
  <2>2. s.isShown
    BY <2>1, BackdropShown
  <2>3. ASSUME Away(p, h)
        PROVE  /\ ModalTyped(opened)
               /\ opened.modalOpen /\ opened.dismiss /\ opened.escape = options.keyboard
               /\ opened.backdropClicks = 0 /\ opened.backdrop = 0
               /\ opened.backdrops = p.backdrops /\ opened.pending = p.pending
    BY <1>2, <2>3 DEF M!SetScrollbar, M!ShowEvent, Away, Good, Fits, ModalTyped, ModalFields
  <2> HIDE DEF opened
  <2>4. ASSUME Away(p, h) PROVE Good(s, FALSE)
    <3>1. Fits(opened) /\ opened.pending[M!Element] = << >>
      BY <2>3, <2>4 DEF Away, Good, Fits
    <3> QED  BY <2>1, <2>3, <2>4, <3>1, BackdropMade DEF Good
  <2> QED  BY <1>2, <2>2, <2>4
<1> QED  BY <1>1, <1>2

\* Everything but what waits.
SameButPending(p, w) ==
    /\ w.isShown = p.isShown /\ w.backdrop = p.backdrop /\ w.backdrops = p.backdrops
    /\ w.visible = p.visible /\ w.in = p.in /\ w.modalOpen = p.modalOpen /\ w.bodyPad = p.bodyPad
    /\ w.escape = p.escape /\ w.dismiss = p.dismiss /\ w.backdropClicks = p.backdropClicks
    /\ w.focusin = p.focusin /\ w.onHidden = p.onHidden

LEMMA WaitIs ==
    ASSUME NEW p, ModalTyped(p), NEW el \in M!Elements, NEW handler \in ModalHandlers
    PROVE  LET w == M!Wait(p, el, handler) IN
           /\ ModalTyped(w) /\ SameButPending(p, w)
           /\ \A other \in M!Elements : w.pending[other] =
                  IF other = el THEN Append(p.pending[el], handler) ELSE p.pending[other]
<1> DEFINE bound == M!T!Bound(p.pending, el, handler)
<1>1. p.pending \in [M!Elements -> Seq(ModalHandlers)] /\ DOMAIN p = ModalFields
  BY DEF ModalTyped
<1>2. /\ bound \in [M!Elements -> Seq(ModalHandlers)]
      /\ \A other \in M!Elements : bound[other] =
             IF other = el THEN Append(p.pending[el], handler) ELSE p.pending[other]
  BY ONLY <1>1, BoundIs
<1>3. M!Wait(p, el, handler) = [p EXCEPT !.pending = bound]
  BY <1>1 DEF M!Wait, ModalFields
<1> HIDE DEF bound
<1> QED  BY <1>2, <1>3 DEF ModalTyped, ModalFields, SameButPending

\* At rest, hide is done at once.
LEMMA HideModalAtOnce ==
    ASSUME NEW p, NEW h, Fits(p), ~M!Animated, ~p.isShown, p.backdropClicks = 0, h \/ (~p.in /\ ~p.focusin)
    PROVE  Fits(M!HideModal(p)) /\ Away(M!HideModal(p), h)
<1> DEFINE v == [p EXCEPT !.visible = FALSE]
<1>1. /\ ModalTyped(v) /\ v.pending = p.pending /\ v.visible = FALSE /\ v.isShown = p.isShown
      /\ v.backdrop = p.backdrop /\ v.backdrops = p.backdrops /\ v.backdropClicks = p.backdropClicks
      /\ v.in = p.in /\ v.focusin = p.focusin
  BY DEF Fits, ModalTyped, ModalFields
<1>2. M!HideModal(p) = M!Backdrop(v, "unlock")
  BY DEF M!HideModal
<1> HIDE DEF v
<1>3. Fits(v) /\ v.pending[M!Element] = << >>
  BY <1>1, ModalElements DEF Fits
<1>4. M!Backdrop(v, "unlock") = M!Unlock(M!RemoveBackdrop(v))
  BY <1>1 DEF M!Backdrop, M!Callback, M!RemoveBackdrop
<1> QED  BY <1>1, <1>2, <1>3, <1>4, PutAway

LEMMA ModalHideKeeps ==
    ASSUME NEW p, NEW h, Fits(p), Up(p), Waiting(p) = <<"display">> => h
    PROVE  LET n == M!Hide(p, FALSE) IN Good(n, h) /\ ~n.isShown
<1> DEFINE closed == [p EXCEPT !.isShown = FALSE, !.escape = FALSE, !.focusin = FALSE,
                               !.in = FALSE, !.dismiss = FALSE, !.backdropClicks = 0]
           n == M!Hide(p, FALSE)
<1>1. /\ ModalTyped(closed) /\ closed.pending = p.pending /\ closed.isShown = FALSE
      /\ closed.backdrop = p.backdrop /\ closed.backdrops = p.backdrops /\ closed.backdropClicks = 0
      /\ closed.in = FALSE /\ closed.focusin = FALSE
  BY DEF Fits, ModalTyped, ModalFields
<1>2. n = IF M!Animated THEN M!Wait(closed, M!Element, "hideModal") ELSE M!HideModal(closed)
  BY DEF M!Hide, Up
<1> HIDE DEF closed, n
<1>3. Fits(closed) /\ Waiting(closed) = Waiting(p) /\ closed.pending[M!Element] = << >>
  BY <1>1 DEF Fits, Waiting, Up
<1>4. CASE ~M!Animated
  <2>1. Fits(M!HideModal(closed)) /\ Away(M!HideModal(closed), h)
    BY ONLY <1>1, <1>3, <1>4, HideModalAtOnce
  <2> QED  BY <1>2, <1>4, <2>1 DEF Good, Away, n
<1>5. CASE M!Animated
  <2>1. /\ "hideModal" \in ModalHandlers /\ M!Element \in M!Elements
        /\ Append(<< >>, "hideModal") = <<"hideModal">>
    BY ModalElements DEF ModalHandlers
  <2>2. n = M!Wait(closed, M!Element, "hideModal")
    BY <1>2, <1>5
  <2>3. /\ ModalTyped(n) /\ SameButPending(closed, n)
        /\ \A other \in M!Elements : n.pending[other] =
               IF other = M!Element THEN <<"hideModal">> ELSE closed.pending[other]
    <3>1. \A other \in M!Elements : n.pending[other] =
               IF other = M!Element THEN Append(closed.pending[M!Element], "hideModal")
               ELSE closed.pending[other]
      BY ONLY <1>1, <2>1, <2>2, WaitIs
    <3>2. ModalTyped(n) /\ SameButPending(closed, n)
      BY ONLY <1>1, <2>1, <2>2, WaitIs
    <3> QED  BY ONLY <1>3, <2>1, <3>1, <3>2
  <2>4. Waiting(n) = Waiting(p)
    BY <1>1, <1>3, <2>3, ModalElements DEF Waiting, SameButPending, ModalTyped
  <2>5. Fits(n)
    BY <1>3, <1>5, <2>3, ModalElements DEF Fits, SameButPending
  <2>6. Going(n, h)
    <3>1. /\ ~n.isShown /\ n.backdropClicks = 0 /\ ~n.in /\ ~n.focusin
          /\ n.pending[M!Element] = <<"hideModal">>
      BY <1>1, <2>1, <2>3 DEF SameButPending
    <3> QED  BY <2>4, <3>1 DEF Going, Up
  <2> QED  BY <2>5, <2>6 DEF Good, Going, n
<1> QED  BY <1>4, <1>5

\* A transition ends: what waited for it is taken from the element, and run.
EndOf(p, el) == [p EXCEPT !.pending = M!T!Ended(@, el)]

LEMMA EndOfIs ==
    ASSUME NEW p, Fits(p), NEW el \in M!Elements
    PROVE  LET e == EndOf(p, el) IN
           /\ Fits(e) /\ SameButPending(p, e)
           /\ \A other \in M!Elements : e.pending[other] = IF other = el THEN << >> ELSE p.pending[other]
<1> DEFINE ended == M!T!Ended(p.pending, el)
           e == EndOf(p, el)
<1>1. p.pending \in [M!Elements -> Seq(ModalHandlers)] /\ DOMAIN p = ModalFields
  BY DEF Fits, ModalTyped
<1>2. /\ ended \in [M!Elements -> Seq(ModalHandlers)]
      /\ \A other \in M!Elements : ended[other] = IF other = el THEN << >> ELSE p.pending[other]
  BY ONLY <1>1, EndedIs
<1>3. e = [p EXCEPT !.pending = ended]
  BY <1>1 DEF EndOf, ModalFields
<1> HIDE DEF ended
<1>4. ModalTyped(e) /\ SameButPending(p, e) /\ e.pending = ended
  BY <1>2, <1>3 DEF Fits, ModalTyped, ModalFields, SameButPending
<1> HIDE DEF e
<1>5. << >> \in Seq({"shown"})
  BY EmptySeq
<1>6. Fits(e)
  BY <1>2, <1>4, <1>5, ModalElements DEF Fits, SameButPending
<1> QED  BY <1>2, <1>4, <1>6 DEF e

\* The end of each kind of transition.
LEMMA DialogEnds ==
    ASSUME NEW p, NEW h, Good(p, h)
    PROVE  Good(M!RunAll(EndOf(p, M!Dialog), p.pending[M!Dialog]), h)
<1> DEFINE e == EndOf(p, M!Dialog)
<1>1. M!RunAll(e, p.pending[M!Dialog]) = e
  BY RunsShown DEF Good, Fits
<1>2. /\ Fits(e) /\ SameButPending(p, e)
      /\ \A other \in M!Elements \ {M!Dialog} : e.pending[other] = p.pending[other]
  BY ModalElements, EndOfIs DEF Good
<1> HIDE DEF e
<1>3. Waiting(e) = Waiting(p) /\ e.pending[M!Element] = p.pending[M!Element]
  BY <1>2, ModalElements DEF Waiting, SameButPending, Good, Fits, ModalTyped
<1>4. Up(p) => Up(e)
  BY <1>2, <1>3 DEF SameButPending, Up
<1>5. Going(p, h) => Going(e, h)
  BY <1>2, <1>3 DEF SameButPending, Going
<1>6. Fading(p, h) => Fading(e, h)
  BY <1>2, <1>3 DEF SameButPending, Fading
<1>7. Away(p, h) => Away(e, h)
  BY <1>2, <1>3 DEF SameButPending, Away
<1> QED  BY <1>1, <1>2, <1>4, <1>5, <1>6, <1>7 DEF Good, e

LEMMA ElementEnds ==
    ASSUME NEW p, NEW h, Good(p, h), p.pending[M!Element] # << >>
    PROVE  Good(M!RunAll(EndOf(p, M!Element), p.pending[M!Element]), h)
<1> DEFINE e == EndOf(p, M!Element)
           v == [e EXCEPT !.visible = FALSE]
<1>1. Fits(p) /\ Going(p, h)
  BY DEF Good, Up, Fading, Away
<1>2. M!RunAll(e, p.pending[M!Element]) = M!Backdrop(v, "unlock")
  <2>1. M!Run(e, "hideModal") = M!HideModal(e)
    BY DEF M!Run
  <2>2. M!HideModal(e) = M!Backdrop(v, "unlock")
    BY DEF M!HideModal
  <2> HIDE DEF e, v
  <2>3. p.pending[M!Element] = <<"hideModal">>
    BY <1>1 DEF Going
  <2> QED  BY <2>1, <2>2, <2>3, RunsOne
<1>3. M!Animated
  BY <1>1, ModalElements DEF Fits
<1>4. /\ Fits(e) /\ SameButPending(p, e)
      /\ \A other \in M!Elements : e.pending[other] = IF other = M!Element THEN << >> ELSE p.pending[other]
  BY <1>1, ModalElements, EndOfIs
<1> HIDE DEF e
<1>5. /\ ModalTyped(v) /\ v.pending = e.pending /\ ~v.visible /\ v.isShown = p.isShown
      /\ v.backdrop = p.backdrop /\ v.backdrops = p.backdrops /\ v.backdropClicks = p.backdropClicks
      /\ v.in = p.in /\ v.focusin = p.focusin
  BY <1>4 DEF Fits, ModalTyped, ModalFields, SameButPending
<1> HIDE DEF v
<1>6. /\ Fits(v) /\ v.pending[M!Element] = << >> /\ Waiting(v) = Waiting(p)
      /\ ~v.isShown /\ v.backdropClicks = 0
  BY <1>1, <1>4, <1>5, ModalElements DEF Fits, Going, Waiting, SameButPending, ModalTyped
<1>7. CASE p.backdrop = 0
  <2>1. h \/ (~v.visible /\ ~v.in /\ ~v.focusin)
    BY <1>1, <1>5, <1>7 DEF Going, Waiting
  <2>2. M!Backdrop(v, "unlock") = M!Unlock(M!RemoveBackdrop(v))
    BY <1>5, <1>6, <1>7 DEF M!Backdrop, M!Callback, M!RemoveBackdrop
  <2>3. LET u == M!Unlock(M!RemoveBackdrop(v)) IN Fits(u) /\ Away(u, h)
    BY ONLY <1>6, <2>1, PutAway
  <2> QED  BY <1>2, <2>2, <2>3 DEF Good, e
<1>8. CASE p.backdrop # 0
  <2> DEFINE w == M!Wait(v, v.backdrop, "remove")
  <2>1. M!Backdrop(v, "unlock") = w
    BY <1>3, <1>5, <1>6, <1>8 DEF M!Backdrop
  <2>2. v.backdrop \in M!Elements /\ v.backdrop \in M!Backdrops /\ "remove" \in ModalHandlers
    BY <1>5, <1>8, ModalElements DEF ModalTyped, ModalHandlers
  <2>3. ModalTyped(w) /\ SameButPending(v, w)
    BY ONLY <1>5, <2>2, WaitIs
  <2>4. \A other \in M!Elements : w.pending[other] =
            IF other = v.backdrop THEN Append(v.pending[v.backdrop], "remove") ELSE v.pending[other]
    BY ONLY <1>5, <2>2, WaitIs
  <2> HIDE DEF w
  <2>5. Fits(w)
    BY <1>3, <1>6, <2>2, <2>3, <2>4, ModalElements DEF Fits, SameButPending
  <2>6. /\ ~w.isShown /\ w.backdropClicks = 0 /\ w.backdrop # 0
        /\ ~w.visible /\ w.in = p.in /\ w.focusin = p.focusin
        /\ w.pending[M!Element] = << >>
        /\ Waiting(w) = Append(Waiting(p), "remove")
    BY <1>5, <1>6, <1>8, <2>2, <2>3, <2>4, ModalElements DEF SameButPending, Waiting
  <2>7. /\ Append(<<"display">>, "remove") = <<"display", "remove">>
        /\ Append(<< >>, "remove") = <<"remove">>
    BY OneThenTwo
  <2>8. Fading(w, h)
    BY <1>1, <2>6, <2>7 DEF Fading, Going
  <2> QED  BY <1>2, <2>1, <2>5, <2>8 DEF Good, e, w
<1> QED  BY <1>7, <1>8

LEMMA BackdropEnds ==
    ASSUME ModalOptions, NEW p, NEW h, Good(p, h), NEW b \in M!Backdrops, p.pending[b] # << >>
    PROVE  Good(M!RunAll(EndOf(p, b), p.pending[b]), h)
<1> DEFINE e == EndOf(p, b)
           d == M!Display(e)
           put(r) == M!Unlock(M!RemoveBackdrop(r))
<1>1. Fits(p) /\ b = p.backdrop /\ Waiting(p) = p.pending[b] /\ p.backdrop # 0 /\ b \in M!Elements
  BY ModalElements DEF Good, Fits, Waiting
<1>2. /\ Fits(e) /\ SameButPending(p, e)
      /\ e.pending[b] = << >> /\ e.pending[M!Element] = p.pending[M!Element]
  BY <1>1, ModalElements, EndOfIs
<1>3. Waiting(e) = << >>
  BY <1>1, <1>2 DEF Waiting, SameButPending
<1> HIDE DEF e, put
<1>4. /\ Fits(d) /\ d.visible /\ d.in /\ d.focusin
      /\ d.isShown = e.isShown /\ d.modalOpen = e.modalOpen /\ d.dismiss = e.dismiss
      /\ d.escape = e.escape /\ d.backdropClicks = e.backdropClicks /\ d.backdrop = e.backdrop
      /\ Waiting(d) = Waiting(e) /\ d.pending[M!Element] = e.pending[M!Element]
  BY ONLY <1>2, DisplayKeeps
<1>5. \A r : M!Run(r, "display") = M!Display(r) /\ M!Run(r, "remove") = put(r)
  BY DEF M!Run, M!Callback, put
<1> HIDE DEF d
<1>6. CASE p.pending[b] = <<"display">>
  <2>1. M!RunAll(e, p.pending[b]) = d
    BY <1>5, <1>6, RunsOne DEF d
  <2>2. Up(p) => Up(d)
    BY <1>1, <1>2, <1>3, <1>4 DEF Up, SameButPending
  <2>3. Going(p, h) => Going(d, h)
    BY <1>1, <1>2, <1>3, <1>4, <1>6 DEF Going, SameButPending
  <2>4. ~Fading(p, h) /\ ~Away(p, h)
    BY <1>1, <1>6 DEF Fading, Away
  <2> QED  BY <1>4, <2>1, <2>2, <2>3, <2>4 DEF Good, e
<1>7. CASE p.pending[b] = <<"remove">>
  <2>1. M!RunAll(e, p.pending[b]) = put(e)
    BY <1>5, <1>7, RunsOne
  <2>2. Fading(p, h)
    BY <1>1, <1>7 DEF Good, Up, Going, Away
  <2>3. /\ ~e.isShown /\ e.backdropClicks = 0 /\ e.pending[M!Element] = << >>
        /\ h \/ (~e.visible /\ ~e.in /\ ~e.focusin)
    BY <1>1, <1>2, <1>7, <2>2 DEF Fading, SameButPending
  <2>4. Fits(put(e)) /\ Away(put(e), h)
    BY ONLY <1>2, <2>3, PutAway DEF put
  <2> QED  BY <2>1, <2>4 DEF Good, e
<1>8. CASE p.pending[b] = <<"display", "remove">>
  <2>1. M!RunAll(e, p.pending[b]) = put(d)
    BY <1>5, <1>8, RunsTwo DEF d
  <2>2. Fading(p, h) /\ h
    BY <1>1, <1>8 DEF Good, Up, Going, Fading, Away
  <2>3. ~d.isShown /\ d.backdropClicks = 0 /\ d.pending[M!Element] = << >>
    BY <1>2, <1>4, <2>2 DEF Fading, SameButPending
  <2>4. Fits(put(d)) /\ Away(put(d), h)
    BY ONLY <1>4, <2>2, <2>3, PutAway DEF put
  <2> QED  BY <2>1, <2>4 DEF Good, e
<1> QED  BY <1>1, <1>6, <1>7, <1>8 DEF Good, Up, Going, Fading, Away

\* Every action keeps the page in one of the four kinds, until it is reopened.
ModalInv == ModalOptions /\ hasty \in BOOLEAN /\ (reopened \/ Good(page, hasty))

\* What Good says of a page and of what hide was called on, it says of the next.
LEMMA Carried ==
    ASSUME NEW n, NEW h, Good(n, h), n = page', h = hasty', UNCHANGED <<transition, options>>
    PROVE  Good(page, hasty)'
<1>1. M!Animated' <=> M!Animated
  BY DEF M!Animated, M!T!Supported
<1>2. Fits(page)'
  BY <1>1 DEF Good, Fits, ModalTyped
<1>3. Waiting(page)' = Waiting(n)
  BY DEF Waiting
<1>4. Up(n) => Up(page)'
  BY <1>3 DEF Up
<1>5. Going(n, h) => Going(page, hasty)'
  BY <1>3 DEF Going
<1>6. Fading(n, h) => Fading(page, hasty)'
  BY <1>3 DEF Fading
<1>7. Away(n, h) => Away(page, hasty)'
  BY DEF Away
<1> QED  BY <1>2, <1>4, <1>5, <1>6, <1>7 DEF Good

LEMMA NoTransitionYet ==
    ASSUME NEW n, Fits(n), transition = "undefined"
    PROVE  /\ \A el \in M!Elements : n.pending[el] = << >>
           /\ Waiting(n) = << >>
<1>1. ~M!Animated
  BY DEF M!Animated, M!T!Supported
<1>2. \A el \in M!Elements : n.pending[el] = << >>
  BY <1>1 DEF Fits
<1> QED  BY <1>2, ModalElements DEF Waiting, Fits, ModalTyped

LEMMA ModalReady ==
    ASSUME ModalInv, M!T!Ready, UNCHANGED <<options, scrolls, page, calls, reopened, hasty>>
    PROVE  ModalInv'
<1>1. transition = "undefined" /\ transition' \in {"event", "false"}
  BY DEF M!T!Ready, M!T!TransitionEnd
<1>2. ModalOptions'
  BY <1>1 DEF ModalInv, ModalOptions, M!Options
<1>3. ASSUME ~reopened PROVE Good(page, hasty)'
  <2>1. PICK n, h : n = page /\ h = hasty
    OBVIOUS
  <2>2. Good(n, h) /\ page' = n /\ hasty' = h
    BY <1>3, <2>1 DEF ModalInv
  <2>3. (\A el \in M!Elements : n.pending[el] = << >>) /\ Waiting(n) = << >>
    BY <1>1, <2>2, NoTransitionYet DEF Good
  <2>4. Fits(page)'
    BY <2>2, <2>3 DEF Good, Fits, ModalTyped
  <2>5. Waiting(page)' = Waiting(n)
    BY <2>2 DEF Waiting
  <2>6. (Up(n) => Up(page)') /\ (Going(n, h) => Going(page, hasty)')
        /\ (Fading(n, h) => Fading(page, hasty)') /\ (Away(n, h) => Away(page, hasty)')
    BY <2>2, <2>5 DEF Up, Going, Fading, Away
  <2> QED  BY <2>2, <2>4, <2>6 DEF Good
<1> QED  BY <1>2, <1>3 DEF ModalInv

\* A modal that is not shown, and is not away, is being hidden.
LEMMA HidingIs ==
    ASSUME Good(page, hasty), ~page.isShown, ~M!Hiding
    PROVE  Away(page, hasty)
<1>1. M!Element \in M!Elements /\ (page.backdrop # 0 => page.backdrop \in M!Elements)
  BY ModalElements DEF Good, Fits, ModalTyped
<1>2. ~Going(page, hasty)
  <2> SUFFICES ASSUME page.pending[M!Element] = <<"hideModal">> PROVE FALSE
    BY DEF Going
  <2>1. 1 \in DOMAIN <<"hideModal">> /\ <<"hideModal">>[1] = "hideModal"
    OBVIOUS
  <2> QED  BY <1>1, <2>1 DEF M!Hiding
<1>3. ~Fading(page, hasty)
  <2> SUFFICES ASSUME page.backdrop # 0,
                      \/ page.pending[page.backdrop] = <<"display", "remove">>
                      \/ page.pending[page.backdrop] = <<"remove">>
               PROVE  FALSE
    BY DEF Fading, Waiting
  <2>1. /\ 1 \in DOMAIN <<"remove">> /\ <<"remove">>[1] = "remove"
        /\ 2 \in DOMAIN <<"display", "remove">> /\ <<"display", "remove">>[2] = "remove"
    OBVIOUS
  <2> QED  BY <1>1, <2>1 DEF M!Hiding
<1> QED  BY <1>2, <1>3 DEF Good, Up

LEMMA DisplayingIs ==
    ASSUME Good(page, hasty), Waiting(page) = <<"display">>
    PROVE  M!Displaying
<1>1. page.backdrop \in M!Elements /\ page.pending[page.backdrop] = <<"display">>
  BY ModalElements DEF Good, Fits, ModalTyped, Waiting
<1>2. 1 \in DOMAIN <<"display">> /\ <<"display">>[1] = "display"
  OBVIOUS
<1> QED  BY <1>1, <1>2 DEF M!Displaying

\* What a call must leave.
KeptGood(n) ==
    /\ page.isShown /\ n.isShown => Good(n, hasty)
    /\ ~page.isShown /\ ~n.isShown => Good(n, hasty)
    /\ page.isShown /\ ~n.isShown => Good(n, hasty \/ M!Displaying)
    /\ ~page.isShown /\ n.isShown /\ ~M!Hiding => Good(n, FALSE)

LEMMA CallKeeps ==
    ASSUME ModalInv, NEW n, M!Does(n), ~reopened => KeptGood(n)
    PROVE  ModalInv'
<1>1. ModalOptions'
  BY DEF ModalInv, ModalOptions, M!Options, M!Does
<1>2. hasty' \in BOOLEAN
  BY DEF ModalInv, M!Does, M!Displaying
<1>3. ASSUME ~reopened' PROVE Good(page, hasty)'
  <2>1. /\ ~reopened /\ ~(~page.isShown /\ n.isShown /\ M!Hiding)
        /\ page' = n /\ UNCHANGED <<transition, options>>
        /\ hasty' = IF n.isShown /\ ~page.isShown THEN FALSE
                    ELSE hasty \/ (page.isShown /\ ~n.isShown /\ M!Displaying)
    BY <1>3 DEF M!Does, ModalInv
  <2>2. hasty \in BOOLEAN /\ page.isShown \in BOOLEAN
    BY <2>1 DEF ModalInv, Good, Fits, ModalTyped
  <2>3. PICK h : h = hasty'
    OBVIOUS
  <2>4. Good(n, h)
    <3>1. CASE page.isShown /\ n.isShown
      <4>1. h = hasty
        BY <2>1, <2>2, <2>3, <3>1
      <4> QED  BY <2>1, <3>1, <4>1 DEF KeptGood
    <3>2. CASE ~page.isShown /\ ~n.isShown
      <4>1. h = hasty
        BY <2>1, <2>2, <2>3, <3>2
      <4> QED  BY <2>1, <3>2, <4>1 DEF KeptGood
    <3>3. CASE page.isShown /\ ~n.isShown
      <4>1. h = (hasty \/ M!Displaying)
        BY <2>1, <2>2, <2>3, <3>3 DEF M!Displaying
      <4> QED  BY <2>1, <3>3, <4>1 DEF KeptGood
    <3>4. CASE ~page.isShown /\ n.isShown
      <4>1. h = FALSE
        BY <2>1, <2>2, <2>3, <3>4
      <4> QED  BY <2>1, <3>4, <4>1 DEF KeptGood
    <3> QED  BY <3>1, <3>2, <3>3, <3>4
  <2> QED  BY <2>1, <2>3, <2>4, Carried
<1> QED  BY <1>1, <1>2, <1>3 DEF ModalInv

\* The page as a listener may have changed it before the call.
Alike(p) ==
    /\ Good(p, hasty)
    /\ p.isShown = page.isShown
    /\ Waiting(p) = Waiting(page)
    /\ Away(page, hasty) => Away(p, hasty)

LEMMA AlikePages ==
    ASSUME Good(page, hasty), NEW flag \in BOOLEAN
    PROVE  /\ Alike(page)
           /\ Alike([page EXCEPT !.onShow = flag])
           /\ Alike([page EXCEPT !.ignoreBackdropClick = flag])
BY DEF Alike, Good, Fits, Up, Going, Fading, Away, Waiting, ModalTyped, ModalFields

LEMMA AlikeKept ==
    ASSUME NEW p, Alike(p)
    PROVE  KeptGood(p)
BY DEF Alike, KeptGood, Good, Fits, ModalTyped

LEMMA ShowCalled ==
    ASSUME ModalInv, Good(page, hasty), NEW p, Alike(p), NEW prevented \in BOOLEAN
    PROVE  KeptGood(M!Show(p, prevented))
<1> DEFINE s == M!Show(p, prevented)
<1>1. /\ s.isShown <=> p.isShown \/ ~prevented
      /\ p.isShown \/ prevented => Good(s, hasty)
      /\ Away(p, hasty) /\ ~prevented => Good(s, FALSE)
  BY ModalShowKeeps DEF Alike, ModalInv
<1> HIDE DEF s
<1>2. p.isShown = page.isShown /\ page.isShown \in BOOLEAN
  BY DEF Alike, Good, Fits, ModalTyped
<1>3. ~page.isShown /\ ~M!Hiding => Away(p, hasty)
  BY HidingIs DEF Alike
<1>4. KeptGood(s)
  BY <1>1, <1>2, <1>3 DEF KeptGood
<1> QED  BY <1>4 DEF s

LEMMA HideCalled ==
    ASSUME ModalInv, Good(page, hasty), NEW p, Alike(p), NEW prevented \in BOOLEAN
    PROVE  KeptGood(M!Hide(p, prevented))
<1>1. p.isShown = page.isShown /\ page.isShown \in BOOLEAN
  BY DEF Alike, Good, Fits, ModalTyped
<1>2. CASE ~p.isShown \/ prevented
  BY <1>2, AlikeKept DEF M!Hide
<1>3. CASE p.isShown /\ ~prevented
  <2> DEFINE n == M!Hide(p, FALSE)
  <2>1. Fits(p) /\ Up(p) /\ Waiting(p) = Waiting(page)
    BY <1>3 DEF Alike, Good, Going, Fading, Away
  <2>2. Waiting(p) = <<"display">> => hasty \/ M!Displaying
    BY <2>1, DisplayingIs
  <2>3. Good(n, hasty \/ M!Displaying) /\ ~n.isShown
    BY ONLY <2>1, <2>2, ModalHideKeeps
  <2>4. prevented = FALSE
    BY <1>3
  <2> HIDE DEF n
  <2>5. KeptGood(n)
    BY <1>1, <1>3, <2>3 DEF KeptGood
  <2> QED  BY <2>4, <2>5 DEF n
<1> QED  BY <1>2, <1>3

LEMMA ToggleCalled ==
    ASSUME ModalInv, Good(page, hasty), NEW p, Alike(p), NEW prevented \in BOOLEAN
    PROVE  KeptGood(M!Toggle(p, prevented))
BY ShowCalled, HideCalled DEF M!Toggle

LEMMA ModalEnd ==
    ASSUME ModalInv, NEW el \in M!Elements, M!End(el)
    PROVE  ModalInv'
<1>1. /\ page' = M!RunAll(EndOf(page, el), page.pending[el]) /\ page.pending[el] # << >>
      /\ UNCHANGED <<transition, options, scrolls, reopened, hasty>>
  BY DEF M!End, EndOf
<1>2. ASSUME ~reopened PROVE Good(page, hasty)'
  <2>1. PICK p, h : p = page /\ h = hasty
    OBVIOUS
  <2> DEFINE n == M!RunAll(EndOf(p, el), p.pending[el])
  <2>2. Good(p, h) /\ p.pending[el] # << >> /\ page' = n /\ hasty' = h
    BY <1>1, <1>2, <2>1 DEF ModalInv
  <2>3. Good(n, h)
    <3>1. el = M!Element \/ el = M!Dialog \/ el \in M!Backdrops
      BY ModalElements
    <3>2. ModalOptions
      BY DEF ModalInv
    <3> QED  BY ONLY <2>2, <3>1, <3>2, ElementEnds, DialogEnds, BackdropEnds
  <2> HIDE DEF n
  <2> QED  BY <1>1, <2>2, <2>3, Carried
<1> QED  BY <1>1, <1>2 DEF ModalInv, ModalOptions, M!Options

LEMMA ModalNext ==
    ASSUME ModalInv, M!Next
    PROVE  ModalInv'
<1>1. CASE UNCHANGED <<options, scrolls, page, calls, reopened, hasty>> /\ M!T!Ready
  BY <1>1, ModalReady
<1>2. CASE M!Call
  <2>1. PICK prevented \in BOOLEAN :
            \E n \in {M!Show(page, prevented), M!Hide(page, prevented), M!Toggle(page, prevented)} :
                M!Does(n)
    BY <1>2 DEF M!Call
  <2>2. PICK n \in {M!Show(page, prevented), M!Hide(page, prevented), M!Toggle(page, prevented)} :
            M!Does(n)
    BY <2>1
  <2>3. ~reopened => KeptGood(n)
    BY <2>2, AlikePages, ShowCalled, HideCalled, ToggleCalled DEF ModalInv
  <2> QED  BY <2>2, <2>3, CallKeeps
<1>3. CASE M!ClickTrigger
  <2>1. PICK prevented \in BOOLEAN : M!Does(M!Toggle([page EXCEPT !.onShow = TRUE], prevented))
    BY <1>3 DEF M!ClickTrigger
  <2>2. ~reopened => KeptGood(M!Toggle([page EXCEPT !.onShow = TRUE], prevented))
    BY AlikePages, ToggleCalled DEF ModalInv
  <2> QED  BY <2>1, <2>2, CallKeeps
<1>4. CASE M!ClickDismiss \/ M!KeydownEscape
  <2>1. PICK prevented \in BOOLEAN : M!Does(M!Hide(page, prevented))
    BY <1>4 DEF M!ClickDismiss, M!KeydownEscape
  <2>2. ~reopened => KeptGood(M!Hide(page, prevented))
    BY AlikePages, HideCalled DEF ModalInv
  <2> QED  BY <2>1, <2>2, CallKeeps
<1>5. CASE M!Drag
  <2>1. M!Does([page EXCEPT !.ignoreBackdropClick = TRUE])
    BY <1>5 DEF M!Drag
  <2>2. ~reopened => KeptGood([page EXCEPT !.ignoreBackdropClick = TRUE])
    BY AlikePages, AlikeKept DEF ModalInv
  <2> QED  BY <2>1, <2>2, CallKeeps
<1>6. CASE M!ClickBackdrop
  <2> DEFINE heeded == [page EXCEPT !.ignoreBackdropClick = FALSE]
  <2>1. PICK prevented \in BOOLEAN : \E n \in {heeded, M!Hide(heeded, prevented)} : M!Does(n)
    BY <1>6 DEF M!ClickBackdrop
  <2>2. PICK n \in {heeded, M!Hide(heeded, prevented)} : M!Does(n)
    BY <2>1
  <2>3. ~reopened => Alike(heeded)
    BY AlikePages DEF ModalInv
  <2> HIDE DEF heeded
  <2>4. ~reopened => KeptGood(n)
    BY <2>2, <2>3, AlikeKept, HideCalled DEF ModalInv
  <2> QED  BY <2>2, <2>4, CallKeeps
<1>7. CASE \E el \in M!Elements : M!End(el)
  BY <1>7, ModalEnd
<1> QED  BY <1>1, <1>2, <1>3, <1>4, <1>5, <1>6, <1>7 DEF M!Next

LEMMA ModalStarts ==
    ASSUME M!Init
    PROVE  ModalInv
<1>1. ModalOptions /\ hasty \in BOOLEAN
  BY DEF M!Init, ModalOptions
<1>2. << >> \in Seq(ModalHandlers) /\ << >> \in Seq({"shown"})
  BY EmptySeq
<1>3. Fits(page)
  BY <1>2, ModalElements DEF M!Init, Fits, ModalTyped, ModalFields
<1>4. Away(page, hasty)
  BY ModalElements DEF M!Init, Away
<1> QED  BY <1>1, <1>3, <1>4 DEF ModalInv, Good

OverlaysModalInv == overlay = "modal" => ModalInv

LEMMA ModalInductive == SpecOverlays => []OverlaysModalInv
<1>1. InitOverlays => OverlaysModalInv
  BY ModalStarts DEF InitOverlays, OverlaysModalInv
<1>2. OverlaysModalInv /\ [NextOverlays]_overlaysVars => OverlaysModalInv'
  <2> SUFFICES ASSUME OverlaysModalInv, [NextOverlays]_overlaysVars, (overlay = "modal")'
               PROVE  ModalInv'
    BY DEF OverlaysModalInv
  <2>1. CASE M!Next /\ UNCHANGED <<overlay, tooltipVars>>
    BY <2>1, ModalNext DEF OverlaysModalInv
  <2>2. CASE UNCHANGED overlaysVars
    <3>1. ModalInv /\ UNCHANGED <<transition, options, scrolls, page, calls, reopened, hasty>>
      BY <2>2 DEF overlaysVars, modalVars, OverlaysModalInv
    <3>2. ASSUME ~reopened PROVE Good(page, hasty)'
      <4>1. PICK p, h : p = page /\ h = hasty
        OBVIOUS
      <4> QED  BY <3>1, <3>2, <4>1, Carried DEF ModalInv
    <3> QED  BY <3>1, <3>2 DEF ModalInv, ModalOptions, M!Options
  <2> QED  BY <2>1, <2>2 DEF NextOverlays
<1> QED  BY <1>1, <1>2, PTL DEF SpecOverlays

\* A modal that is hidden, and at rest, leaves nothing behind on the page, whatever is
\* called, clicked, prevented or ended in between, with any options and with or without
\* transitions, unless show was called while hide was at work.
THEOREM HiddenModalLeavesNothing == SpecOverlays => []HiddenLeavesNothing
<1>1. OverlaysModalInv => HiddenLeavesNothing
  <2> SUFFICES ASSUME ModalInv, M!AtRest, ~page.isShown, ~reopened, overlay = "modal"
               PROVE  /\ page.backdrops = {} /\ ~page.modalOpen /\ page.bodyPad = 0 /\ ~page.onHidden
                      /\ hasty \/ (~page.visible /\ ~page.in /\ ~page.focusin)
    BY DEF OverlaysModalInv, HiddenLeavesNothing, M!HiddenLeavesNothing
  <2>1. Good(page, hasty)
    BY DEF ModalInv
  <2>2. page.pending[M!Element] = << >> /\ (page.backdrop # 0 => Waiting(page) = << >>)
    BY <2>1, ModalElements DEF M!AtRest, Waiting, Good, Fits, ModalTyped
  <2>3. /\ << >> # <<"hideModal">> /\ << >> # <<"remove">>
        /\ << >> # <<"display", "remove">>
    OBVIOUS
  <2>4. Away(page, hasty)
    BY <2>1, <2>2, <2>3 DEF Good, Up, Going, Fading
  <2> QED  BY <2>1, <2>4 DEF Good, Fits, Away
<1> QED  BY <1>1, ModalInductive, PTL

\* A modal that is shown, and at rest, is all there: displayed, with the focus kept, the one
\* backdrop asked for and one handler on it.
THEOREM ShownModalIsWhole == SpecOverlays => []ShownIsWhole
<1>1. OverlaysModalInv => ShownIsWhole
  <2> SUFFICES ASSUME ModalInv, M!AtRest, page.isShown, ~reopened, overlay = "modal"
               PROVE  /\ page.visible /\ page.in /\ page.focusin /\ page.modalOpen /\ page.dismiss
                      /\ page.escape = options.keyboard
                      /\ M!Cardinality(page.backdrops) = page.backdropClicks
                      /\ page.backdrops = (IF options.backdrop = "false" THEN {} ELSE {page.backdrop})
    BY DEF OverlaysModalInv, ShownIsWhole, M!ShownIsWhole
  <2>1. Good(page, hasty)
    BY DEF ModalInv
  <2>2. Up(page) /\ Waiting(page) = << >>
    BY <2>1, ModalElements DEF M!AtRest, Waiting, Good, Fits, ModalTyped, Going, Fading, Away
  <2>3. page.backdrops = (IF options.backdrop = "false" THEN {} ELSE {page.backdrop})
    BY <2>1, <2>2 DEF Good, Fits, Up
  <2>4. \A S : M!Cardinality(S) = Cardinality(S)
    BY DEF M!Cardinality, Cardinality
  <2>5. Cardinality(page.backdrops) = IF options.backdrop = "false" THEN 0 ELSE 1
    BY <2>3, FS_EmptySet, FS_Singleton
  <2> QED  BY <2>2, <2>3, <2>4, <2>5 DEF Up
<1> QED  BY <1>1, ModalInductive, PTL

-----------------------------------------------------------------------------
(* The tooltip: what its methods do.                                       *)

TipHandlers == {"shown", "hidden", "destroyed"}
TipFields == {"alive", "enabled", "inState", "hoverState", "timeout", "inDom", "in", "fade",
              "described", "failed", "pending"}

Queue(t) == t.pending["tip"]
Departs(handlers) == \E i \in DOMAIN handlers : handlers[i] # "shown"
Dies(handlers) == \E i \in DOMAIN handlers : handlers[i] = "destroyed"

\* Handlers wait for a tip that fades, and for no other.
TipFits(t) ==
    /\ DOMAIN t = TipFields
    /\ t.alive \in BOOLEAN /\ t.enabled \in BOOLEAN /\ t.inDom \in BOOLEAN /\ t.in \in BOOLEAN
    /\ t.fade \in BOOLEAN /\ t.described \in BOOLEAN /\ t.failed \in BOOLEAN
    /\ t.hoverState \in {"none", "in", "out"}
    /\ t.timeout \in {"none", "show", "hide"}
    /\ t.inState \subseteq TT!Triggers
    /\ t.pending \in [{"tip"} -> Seq(TipHandlers)]
    /\ t.fade => options.animation
    /\ Queue(t) # << >> => TT!T!Supported /\ t.fade

\* Alive, with nothing wrong, and not being destroyed.
Calm(t) == t.alive /\ ~t.failed /\ ~Dies(Queue(t))

\* What may happen to a tip that is not destroyed.
Tame(t, n) ==
    /\ TipFits(n)
    /\ n.inState = t.inState
    /\ n.alive => t.alive
    /\ Calm(t) => Calm(n)

\* All fields but these two.
Still(t, n) ==
    /\ n.alive = t.alive /\ n.enabled = t.enabled /\ n.inState = t.inState /\ n.inDom = t.inDom
    /\ n.in = t.in /\ n.fade = t.fade /\ n.described = t.described /\ n.failed = t.failed
    /\ Queue(n) = Queue(t)

\* What hide leaves of a tip.
Gone(t, n, handler) ==
    /\ n.hoverState = "none" /\ ~n.in /\ n.timeout = t.timeout
    /\ n.enabled = t.enabled /\ n.inState = t.inState /\ n.failed = t.failed
    /\ \/ n.alive /\ Queue(n) = Append(Queue(t), handler)
       \/ /\ Queue(t) = << >> /\ Queue(n) = << >>
          /\ n.alive <=> handler # "destroyed"
          /\ ~n.described
          /\ t.hoverState # "in" => ~n.inDom

LEMMA Appended ==
    ASSUME NEW s \in Seq(TipHandlers), NEW handler \in TipHandlers
    PROVE  LET r == Append(s, handler) IN
           /\ r \in Seq(TipHandlers) /\ r # << >>
           /\ Departs(r) <=> Departs(s) \/ handler # "shown"
           /\ Dies(r) <=> Dies(s) \/ handler = "destroyed"
           /\ Len(r) = Len(s) + 1 /\ r[Len(s) + 1] = handler
           /\ \A i \in 1 .. Len(s) : r[i] = s[i]
<1> DEFINE r == Append(s, handler)
<1>1. /\ r \in Seq(TipHandlers) /\ r # << >> /\ Len(r) = Len(s) + 1 /\ r[Len(s) + 1] = handler
      /\ \A i \in 1 .. Len(s) : r[i] = s[i]
  BY AppendProperties
<1>2. DOMAIN r = 1 .. Len(s) + 1 /\ DOMAIN s = 1 .. Len(s) /\ Len(s) \in Nat
  BY <1>1, LenProperties
<1> HIDE DEF r
<1>3. \A i \in DOMAIN r : i \in DOMAIN s \/ i = Len(s) + 1
  BY <1>2
<1>4. \A i \in DOMAIN s : i \in DOMAIN r
  BY <1>2
<1>5. Departs(r) <=> Departs(s) \/ handler # "shown"
  BY <1>1, <1>2, <1>3, <1>4 DEF Departs
<1>6. Dies(r) <=> Dies(s) \/ handler = "destroyed"
  BY <1>1, <1>2, <1>3, <1>4 DEF Dies
<1> QED  BY <1>1, <1>5, <1>6 DEF r

LEMMA NothingWaits == ~Departs(<< >>) /\ ~Dies(<< >>) /\ << >> \in Seq(TipHandlers)
BY EmptySeq DEF Departs, Dies

LEMMA TipWaitIs ==
    ASSUME NEW t, TipFits(t), TT!Animated(t), NEW handler \in TipHandlers
    PROVE  LET w == TT!Wait(t, handler) IN
           /\ TipFits(w) /\ Queue(w) = Append(Queue(t), handler)
           /\ w.alive = t.alive /\ w.enabled = t.enabled /\ w.inState = t.inState /\ w.inDom = t.inDom
           /\ w.in = t.in /\ w.fade = t.fade /\ w.described = t.described /\ w.failed = t.failed
           /\ w.hoverState = t.hoverState /\ w.timeout = t.timeout
<1> DEFINE bound == [t.pending EXCEPT !["tip"] = Append(@, handler)]
           w == TT!Wait(t, handler)
<1>1. w = [t EXCEPT !.pending = bound]
  BY DEF TT!Wait, TT!T!Bound, TipFits, TipFields
<1>2. Append(Queue(t), handler) \in Seq(TipHandlers)
  BY Appended DEF TipFits, Queue
<1>3. bound \in [{"tip"} -> Seq(TipHandlers)] /\ bound["tip"] = Append(Queue(t), handler)
  BY <1>2 DEF TipFits, Queue
<1> HIDE DEF bound
<1>4. TipFits(w) /\ Queue(w) = Append(Queue(t), handler)
  BY <1>1, <1>3 DEF TipFits, TipFields, Queue, TT!Animated
<1> QED  BY <1>1, <1>4 DEF TipFits, TipFields

LEMMA FailedIs ==
    ASSUME NEW t, TipFits(t)
    PROVE  /\ TipFits(TT!Failed(t)) /\ TT!Failed(t).inState = t.inState
           /\ TT!Failed(t).alive = t.alive
BY DEF TipFits, TipFields, TT!Failed, Queue

LEMMA HideCompleteIs ==
    ASSUME NEW t, TipFits(t), t.alive, NEW handler \in {"hidden", "destroyed"}
    PROVE  LET n == TT!HideComplete(t, handler) IN
           /\ TipFits(n) /\ Queue(n) = Queue(t)
           /\ n.timeout = t.timeout /\ n.hoverState = t.hoverState
           /\ n.enabled = t.enabled /\ n.inState = t.inState /\ n.failed = t.failed
           /\ n.alive <=> handler # "destroyed"
           /\ ~n.described
           /\ t.hoverState # "in" => ~n.inDom
           /\ n.in => t.in
BY DEF TipFits, TipFields, Queue, TT!HideComplete, TT!Destroyed

LEMMA HideIs ==
    ASSUME NEW t, TipFits(t), NEW handler \in {"hidden", "destroyed"}, NEW prevented
    PROVE  LET n == TT!Hide(t, handler, prevented) IN
           /\ TipFits(n) /\ n.inState = t.inState
           /\ ~t.alive => ~n.alive
           /\ t.alive /\ "hide" \in prevented => n = t
           /\ t.alive /\ "hide" \notin prevented => Gone(t, n, handler)
<1> DEFINE out == [t EXCEPT !.in = FALSE]
           left == IF TT!Animated(out) THEN TT!Wait(out, handler) ELSE TT!HideComplete(out, handler)
           n == TT!Hide(t, handler, prevented)
<1>1. CASE ~t.alive
  BY <1>1, FailedIs DEF TT!Hide
<1>2. CASE t.alive /\ "hide" \in prevented
  BY <1>2 DEF TT!Hide
<1>3. CASE t.alive /\ "hide" \notin prevented
  <2>1. /\ TipFits(out) /\ Queue(out) = Queue(t) /\ out.alive /\ ~out.in /\ out.fade = t.fade
        /\ out.hoverState = t.hoverState /\ out.timeout = t.timeout
        /\ out.enabled = t.enabled /\ out.inState = t.inState /\ out.failed = t.failed
    BY <1>3 DEF TipFits, TipFields, Queue
  <2>2. n = [left EXCEPT !.hoverState = "none"]
    BY <1>3 DEF TT!Hide
  <2> HIDE DEF out
  <2>3. /\ TipFits(left) /\ left.timeout = t.timeout
        /\ left.enabled = t.enabled /\ left.inState = t.inState /\ left.failed = t.failed
        /\ ~left.in
        /\ \/ left.alive /\ Queue(left) = Append(Queue(t), handler)
           \/ /\ Queue(t) = << >> /\ Queue(left) = << >>
              /\ left.alive <=> handler # "destroyed"
              /\ ~left.described
              /\ t.hoverState # "in" => ~left.inDom
    <3>1. CASE TT!Animated(out)
      <4>1. handler \in TipHandlers
        BY DEF TipHandlers
      <4>2. LET w == TT!Wait(out, handler) IN
            /\ TipFits(w) /\ Queue(w) = Append(Queue(out), handler)
            /\ w.alive = out.alive /\ w.enabled = out.enabled /\ w.inState = out.inState
            /\ w.in = out.in /\ w.failed = out.failed /\ w.timeout = out.timeout
        BY ONLY <2>1, <3>1, <4>1, TipWaitIs
      <4> QED  BY <2>1, <3>1, <4>2
    <3>2. CASE ~TT!Animated(out)
      <4>1. Queue(out) = << >>
        BY <2>1, <3>2 DEF TipFits, TT!Animated
      <4>2. left = TT!HideComplete(out, handler)
        BY <3>2
      <4> HIDE DEF left
      <4> QED  BY <2>1, <4>1, <4>2, HideCompleteIs
    <3> QED  BY <3>1, <3>2
  <2> HIDE DEF left
  <2>4. TipFits(n) /\ Gone(t, n, handler)
    <3> HIDE DEF n
    <3> QED  BY <2>2, <2>3 DEF TipFits, TipFields, Queue, Gone
  <2> QED  BY <1>3, <2>4 DEF Gone
<1> QED  BY <1>1, <1>2, <1>3 DEF TipFits

LEMMA HideIsTame ==
    ASSUME NEW t, TipFits(t), NEW prevented
    PROVE  Tame(t, TT!Hide(t, "hidden", prevented))
<1> DEFINE n == TT!Hide(t, "hidden", prevented)
<1>1. /\ TipFits(n) /\ n.inState = t.inState
      /\ ~t.alive => ~n.alive
      /\ t.alive /\ "hide" \in prevented => n = t
      /\ t.alive /\ "hide" \notin prevented => Gone(t, n, "hidden")
  BY HideIs
<1>2. "hidden" \in TipHandlers /\ Queue(t) \in Seq(TipHandlers)
  BY DEF TipHandlers, TipFits, Queue
<1>3. Dies(Append(Queue(t), "hidden")) <=> Dies(Queue(t))
  BY ONLY <1>2, Appended
<1> HIDE DEF n
<1>4. Tame(t, n)
  BY <1>1, <1>3, NothingWaits DEF Tame, Calm, Gone
<1> QED  BY <1>4 DEF n

\* What leave leaves of a tip that no one wants.
Swept(t, n) ==
    /\ n.hoverState = "none" /\ ~n.in /\ n.alive
    /\ n.enabled = t.enabled /\ n.inState = t.inState /\ n.failed = t.failed
    /\ \/ Queue(n) = Append(Queue(t), "hidden")
       \/ Queue(t) = << >> /\ Queue(n) = << >> /\ ~n.described /\ ~n.inDom

LeftAs(t, n, prevented, hover) ==
    \/ t.inState # {} /\ Still(t, n) /\ n.timeout = t.timeout /\ n.hoverState = hover
    \/ /\ t.inState = {} /\ Still(t, n) /\ n.hoverState = "out"
       /\ n.timeout = "hide" \/ ("hide" \in prevented /\ n.timeout = "none")
    \/ t.inState = {} /\ "hide" \notin prevented /\ n.timeout = "none" /\ Swept(t, n)

LEMMA LeaveIs ==
    ASSUME NEW t, TipFits(t), NEW prevented
    PROVE  LET n == TT!Leave(t, prevented) IN
           Tame(t, n) /\ (t.alive => LeftAs(t, n, prevented, t.hoverState))
<1> DEFINE left == [t EXCEPT !.timeout = "none", !.hoverState = "out"]
           n == TT!Leave(t, prevented)
<1>1. CASE t.inState # {}
  BY <1>1 DEF TT!Leave, Tame, LeftAs, Still
<1>2. CASE t.inState = {} /\ options.delayHide
  <2>1. n = [left EXCEPT !.timeout = "hide"]
    BY <1>2 DEF TT!Leave
  <2> HIDE DEF n
  <2>2. TipFits(n) /\ Still(t, n) /\ n.hoverState = "out" /\ n.timeout = "hide"
    BY <2>1 DEF TipFits, TipFields, Still, Queue
  <2>3. Tame(t, n) /\ LeftAs(t, n, prevented, t.hoverState)
    BY <1>2, <2>2 DEF Tame, LeftAs, Still, Calm
  <2> QED  BY <2>3 DEF n
<1>3. CASE t.inState = {} /\ ~options.delayHide
  <2>1. n = TT!Hide(left, "hidden", prevented)
    BY <1>3 DEF TT!Leave
  <2>2. TipFits(left) /\ Still(t, left) /\ left.hoverState = "out" /\ left.timeout = "none"
    BY DEF TipFits, TipFields, Still, Queue
  <2> HIDE DEF left, n
  <2>3. Tame(left, n)
    BY <2>1, <2>2, HideIsTame
  <2>4. /\ left.alive /\ "hide" \in prevented => n = left
        /\ left.alive /\ "hide" \notin prevented => Gone(left, n, "hidden")
    BY <2>1, <2>2, HideIs
  <2>5. Tame(t, n)
    BY <2>2, <2>3 DEF Tame, Still, Calm
  <2>6. t.alive => LeftAs(t, n, prevented, t.hoverState)
    BY <1>3, <2>2, <2>4 DEF LeftAs, Still, Gone, Swept
  <2> QED  BY <2>5, <2>6 DEF n
<1> QED  BY <1>1, <1>2, <1>3

LEMMA ShowCompleteIs ==
    ASSUME NEW t, TipFits(t), NEW prevented
    PROVE  LET n == TT!ShowComplete(t, prevented) IN
           /\ Tame(t, n)
           /\ t.alive /\ t.hoverState # "out" =>
                  Still(t, n) /\ n.hoverState = "none" /\ n.timeout = t.timeout
           /\ t.alive /\ t.hoverState = "out" => LeftAs(t, n, prevented, "none")
<1> DEFINE there == [t EXCEPT !.hoverState = "none"]
           n == TT!ShowComplete(t, prevented)
<1>1. CASE ~t.alive
  BY <1>1, FailedIs DEF TT!ShowComplete, Tame, Calm
<1>2. CASE t.alive
  <2>1. n = IF t.hoverState = "out" THEN TT!Leave(there, prevented) ELSE there
    BY <1>2 DEF TT!ShowComplete
  <2>2. /\ TipFits(there) /\ Still(t, there) /\ there.hoverState = "none"
        /\ there.timeout = t.timeout
    BY DEF TipFits, TipFields, Still, Queue
  <2> HIDE DEF there, n
  <2>3. Tame(t, there)
    BY <2>2 DEF Tame, Still, Calm
  <2>4. LET left == TT!Leave(there, prevented) IN
        Tame(there, left) /\ (there.alive => LeftAs(there, left, prevented, "none"))
    BY ONLY <2>2, LeaveIs
  <2>5. CASE t.hoverState # "out"
    BY <2>1, <2>2, <2>3, <2>5 DEF n
  <2>6. CASE t.hoverState = "out"
    <3>1. Tame(there, n) /\ (there.alive => LeftAs(there, n, prevented, "none"))
      BY <2>1, <2>4, <2>6
    <3>2. Tame(t, n)
      BY <2>3, <3>1 DEF Tame
    <3>3. LeftAs(t, n, prevented, "none")
      BY <1>2, <2>2, <3>1 DEF LeftAs, Still, Swept
    <3> QED  BY <2>6, <3>2, <3>3 DEF n
  <2> QED  BY <2>5, <2>6
<1> QED  BY <1>1, <1>2 DEF TipFits

\* What show leaves of a tip that is on its way in.
TipShown(t, n) ==
    /\ n.alive /\ n.in /\ n.inDom /\ n.described
    /\ n.enabled = t.enabled /\ n.inState = t.inState /\ n.timeout = t.timeout
    /\ \/ n.hoverState = "in" /\ Queue(n) = Append(Queue(t), "shown")
       \/ n.hoverState = "none" /\ Queue(t) = << >> /\ Queue(n) = << >>

LEMMA ShowIs ==
    ASSUME options \in TT!Options, NEW t, TipFits(t), NEW prevented
    PROVE  LET n == TT!Show(t, prevented) IN
           /\ Tame(t, n)
           /\ t.alive /\ t.enabled /\ "show" \notin prevented /\ t.hoverState = "in" => TipShown(t, n)
<1> DEFINE shown == [t EXCEPT !.inDom = TRUE, !.in = TRUE, !.fade = options.animation, !.described = TRUE]
           n == TT!Show(t, prevented)
<1>1. CASE ~t.alive
  BY <1>1, FailedIs DEF TT!Show, Tame, Calm
<1>2. CASE t.alive /\ (~t.enabled \/ "show" \in prevented)
  BY <1>2 DEF TT!Show, Tame
<1>3. CASE t.alive /\ t.enabled /\ "show" \notin prevented
  <2>0. options.animation \in BOOLEAN
    BY DEF TT!Options
  <2>1. /\ TipFits(shown) /\ shown.in /\ shown.inDom /\ shown.described /\ shown.alive
        /\ shown.enabled = t.enabled /\ shown.inState = t.inState /\ shown.timeout = t.timeout
        /\ shown.hoverState = t.hoverState /\ shown.failed = t.failed /\ Queue(shown) = Queue(t)
    BY <1>3, <2>0 DEF TipFits, TipFields, Queue
  <2>2. n = IF TT!Animated(shown) THEN TT!Wait(shown, "shown") ELSE TT!ShowComplete(shown, prevented)
    BY <1>3 DEF TT!Show
  <2> HIDE DEF shown, n
  <2>3. CASE TT!Animated(shown)
    <3>1. "shown" \in TipHandlers /\ Queue(t) \in Seq(TipHandlers)
      BY DEF TipHandlers, TipFits, Queue
    <3>2. LET w == TT!Wait(shown, "shown") IN
          /\ TipFits(w) /\ Queue(w) = Append(Queue(shown), "shown")
          /\ w.alive = shown.alive /\ w.enabled = shown.enabled /\ w.inState = shown.inState
          /\ w.inDom = shown.inDom /\ w.in = shown.in /\ w.described = shown.described
          /\ w.failed = shown.failed /\ w.hoverState = shown.hoverState /\ w.timeout = shown.timeout
      BY ONLY <2>1, <2>3, <3>1, TipWaitIs
    <3>3. Dies(Append(Queue(t), "shown")) <=> Dies(Queue(t))
      BY ONLY <3>1, Appended
    <3>4. n = TT!Wait(shown, "shown")
      BY <2>2, <2>3
    <3>5. Tame(t, n)
      BY <1>3, <2>1, <3>2, <3>3, <3>4 DEF Tame, Calm
    <3>6. t.hoverState = "in" => TipShown(t, n)
      BY <2>1, <3>2, <3>4 DEF TipShown
    <3> QED  BY <3>5, <3>6 DEF n
  <2>4. CASE ~TT!Animated(shown)
    <3>1. Queue(shown) = << >>
      BY <2>1, <2>4 DEF TipFits, TT!Animated
    <3>2. /\ Tame(shown, n)
          /\ shown.alive /\ shown.hoverState # "out" =>
                 Still(shown, n) /\ n.hoverState = "none" /\ n.timeout = shown.timeout
      BY <2>1, <2>2, <2>4, ShowCompleteIs
    <3>3. Tame(t, n)
      BY <1>3, <2>1, <3>2 DEF Tame, Calm
    <3>4. t.hoverState = "in" => TipShown(t, n)
      BY <2>1, <3>1, <3>2 DEF TipShown, Still
    <3> QED  BY <3>3, <3>4 DEF n
  <2> QED  BY <2>3, <2>4
<1> QED  BY <1>1, <1>2, <1>3 DEF TipFits

LEMMA EnterIs ==
    ASSUME options \in TT!Options, NEW t, TipFits(t), NEW prevented
    PROVE  LET n == TT!Enter(t, prevented) IN
           /\ Tame(t, n)
           /\ t.in \/ t.hoverState = "in" => Still(t, n) /\ n.hoverState = "in" /\ n.timeout = t.timeout
           /\ t.alive /\ t.enabled /\ "show" \notin prevented /\ ~t.in /\ t.hoverState # "in" =>
                  \/ Still(t, n) /\ n.hoverState = "in" /\ n.timeout = "show"
                  \/ TipShown([t EXCEPT !.timeout = "none"], n)
<1> DEFINE coming == [t EXCEPT !.hoverState = "in"]
           cleared == [coming EXCEPT !.timeout = "none"]
           n == TT!Enter(t, prevented)
<1>1. /\ TipFits(coming) /\ Still(t, coming) /\ coming.hoverState = "in" /\ coming.timeout = t.timeout
      /\ TipFits(cleared) /\ Still(t, cleared) /\ cleared.hoverState = "in" /\ cleared.timeout = "none"
  BY DEF TipFits, TipFields, Still, Queue
<1>2. CASE t.in \/ t.hoverState = "in"
  <2>1. n = coming
    BY <1>2 DEF TT!Enter
  <2> HIDE DEF coming, n
  <2>2. Tame(t, n)
    BY <1>1, <2>1 DEF Tame, Still, Calm
  <2> QED  BY <1>1, <1>2, <2>1, <2>2 DEF n
<1>3. CASE ~(t.in \/ t.hoverState = "in") /\ options.delayShow
  <2>1. n = [cleared EXCEPT !.timeout = "show"]
    BY <1>3 DEF TT!Enter
  <2> HIDE DEF n
  <2>2. TipFits(n) /\ Still(t, n) /\ n.hoverState = "in" /\ n.timeout = "show"
    BY <2>1 DEF TipFits, TipFields, Still, Queue
  <2>3. Tame(t, n)
    BY <2>2 DEF Tame, Still, Calm
  <2> QED  BY <1>3, <2>2, <2>3 DEF n
<1>4. CASE ~(t.in \/ t.hoverState = "in") /\ ~options.delayShow
  <2>1. n = TT!Show(cleared, prevented)
    BY <1>4 DEF TT!Enter
  <2>2. TipShown(cleared, n) => TipShown([t EXCEPT !.timeout = "none"], n)
    <3>1. /\ [t EXCEPT !.timeout = "none"].enabled = cleared.enabled
          /\ [t EXCEPT !.timeout = "none"].inState = cleared.inState
          /\ [t EXCEPT !.timeout = "none"].timeout = cleared.timeout
          /\ Queue([t EXCEPT !.timeout = "none"]) = Queue(cleared)
      BY DEF TipFits, TipFields, Queue
    <3> HIDE DEF cleared, n
    <3> QED  BY <3>1 DEF TipShown
  <2> HIDE DEF cleared, n
  <2>3. /\ Tame(cleared, n)
        /\ cleared.alive /\ cleared.enabled /\ "show" \notin prevented => TipShown(cleared, n)
    BY <1>1, <2>1, ShowIs
  <2>4. Tame(t, n)
    BY <1>1, <2>3 DEF Tame, Still, Calm
  <2>5. t.alive /\ t.enabled /\ "show" \notin prevented => TipShown([t EXCEPT !.timeout = "none"], n)
    BY <1>1, <2>2, <2>3 DEF Still
  <2> QED  BY <1>4, <2>4, <2>5 DEF n
<1> QED  BY <1>2, <1>3, <1>4

LEMMA ToggleIsTame ==
    ASSUME options \in TT!Options, NEW t, TipFits(t), NEW prevented
    PROVE  Tame(t, TT!Toggle(t, prevented))
BY LeaveIs, EnterIs DEF TT!Toggle

-----------------------------------------------------------------------------
(* The handlers of the tip, run one after the other.                       *)

TipIsRun(f, t, handlers, prevented, n) ==
    f = [i \in 0 .. n |-> IF i = 0 THEN t ELSE TT!Run(f[i - 1], handlers[i], prevented)]

LEMMA TipRunExists ==
    ASSUME NEW t, NEW handlers, NEW prevented, NEW len \in Nat
    PROVE  \E f : TipIsRun(f, t, handlers, prevented, len)
<1> DEFINE Is(f, n) == f = [i \in 0 .. n |-> IF i = 0 THEN t ELSE TT!Run(f[i - 1], handlers[i], prevented)]
           S == {n \in 0 .. len : \E f : Is(f, n)}
<1>1. 0 \in S
  <2> DEFINE g == [i \in 0 .. 0 |-> t]
  <2>1. Is(g, 0)
    <3>1. \A i \in 0 .. 0 : g[i] = IF i = 0 THEN t ELSE TT!Run(g[i - 1], handlers[i], prevented)
      OBVIOUS
    <3> QED  BY <3>1
  <2>2. \E f : Is(f, 0)
    <3> HIDE DEF g
    <3> QED  BY <2>1
  <2> QED  BY <2>2
<1>2. ASSUME NEW n \in 1 .. len, n - 1 \in S
      PROVE  n \in S
  <2>1. PICK f : Is(f, n - 1)
    BY <1>2
  <2> DEFINE g == [i \in 0 .. n |-> IF i = n THEN TT!Run(f[n - 1], handlers[n], prevented) ELSE f[i]]
  <2>2. \A i \in 0 .. n : g[i] = IF i = 0 THEN t ELSE TT!Run(g[i - 1], handlers[i], prevented)
    <3> TAKE i \in 0 .. n
    <3>1. \A j \in 0 .. n - 1 : f[j] = IF j = 0 THEN t ELSE TT!Run(f[j - 1], handlers[j], prevented)
      BY <2>1
    <3>2. CASE i = n
      BY <3>2
    <3>3. CASE i # n
      BY <3>1, <3>3
    <3> QED  BY <3>2, <3>3
  <2>3. Is(g, n)
    BY <2>2
  <2>4. \E h : Is(h, n)
    <3> HIDE DEF g
    <3> QED  BY <2>3
  <2> QED  BY <2>4
<1>3. len \in S
  <2> HIDE DEF S
  <2> QED  BY <1>1, <1>2, UpTo
<1>4. \E f : Is(f, len)
  BY <1>3
<1> QED  BY <1>4 DEF TipIsRun

TipRuns(step, t, handlers, prevented) ==
    /\ step[0] = t
    /\ \A i \in 1 .. Len(handlers) : step[i] = TT!Run(step[i - 1], handlers[i], prevented)
    /\ TT!RunAll(t, handlers, prevented) = step[Len(handlers)]

LEMMA TipRunsAll ==
    ASSUME NEW t, NEW handlers, NEW prevented, Len(handlers) \in Nat
    PROVE  \E step : TipRuns(step, t, handlers, prevented)
<1> DEFINE step == CHOOSE f : TipIsRun(f, t, handlers, prevented, Len(handlers))
<1>1. TipIsRun(step, t, handlers, prevented, Len(handlers))
  BY TipRunExists, Zenon
<1>2. TT!RunAll(t, handlers, prevented) = step[Len(handlers)]
  BY DEF TT!RunAll, TipIsRun
<1> HIDE DEF step
<1>3. TipRuns(step, t, handlers, prevented)
  BY <1>1, <1>2 DEF TipIsRun, TipRuns
<1> QED  BY <1>3

\* The handlers after the i-th.
Rest(handlers, i) == {handlers[j] : j \in i + 1 .. Len(handlers)}

LEMMA RestIs ==
    ASSUME NEW handlers \in Seq(TipHandlers)
    PROVE  /\ \A i \in 1 .. Len(handlers) : Rest(handlers, i - 1) = Rest(handlers, i) \cup {handlers[i]}
           /\ Rest(handlers, Len(handlers)) = {}
           /\ \A i \in 0 .. Len(handlers) : Rest(handlers, i) \subseteq TipHandlers
           /\ Departs(handlers) <=> \E handler \in Rest(handlers, 0) : handler # "shown"
           /\ Dies(handlers) <=> "destroyed" \in Rest(handlers, 0)
<1>1. Len(handlers) \in Nat /\ DOMAIN handlers = 1 .. Len(handlers)
  BY LenProperties
<1>2. \A i \in 1 .. Len(handlers) : handlers[i] \in TipHandlers
  BY ElementOfSeq
<1>3. \A i \in 1 .. Len(handlers) : (i - 1) + 1 .. Len(handlers) = (i + 1 .. Len(handlers)) \cup {i}
  BY <1>1
<1>4. Len(handlers) + 1 .. Len(handlers) = {} /\ 0 + 1 .. Len(handlers) = 1 .. Len(handlers)
  BY <1>1
<1>5. \A i \in 0 .. Len(handlers) : \A j \in i + 1 .. Len(handlers) : j \in 1 .. Len(handlers)
  BY <1>1
<1>6. \A i \in 1 .. Len(handlers) : Rest(handlers, i - 1) = Rest(handlers, i) \cup {handlers[i]}
  BY <1>3 DEF Rest
<1>7. Rest(handlers, Len(handlers)) = {}
  BY <1>4 DEF Rest
<1>8. \A i \in 0 .. Len(handlers) : Rest(handlers, i) \subseteq TipHandlers
  BY <1>2, <1>5 DEF Rest
<1>9. /\ Departs(handlers) <=> \E handler \in Rest(handlers, 0) : handler # "shown"
      /\ Dies(handlers) <=> "destroyed" \in Rest(handlers, 0)
  BY <1>1, <1>4 DEF Rest, Departs, Dies
<1> QED  BY <1>6, <1>7, <1>8, <1>9

LEMMA RunIs ==
    ASSUME NEW t, TipFits(t), NEW handler \in TipHandlers, NEW prevented
    PROVE  LET n == TT!Run(t, handler, prevented) IN
           /\ TipFits(n) /\ n.inState = t.inState /\ (n.alive => t.alive)
           /\ handler # "destroyed" => Tame(t, n)
<1>1. CASE handler = "shown"
  BY <1>1, ShowCompleteIs DEF TT!Run, Tame
<1>2. CASE handler # "shown"
  <2> DEFINE n == TT!HideComplete(t, handler)
  <2>1. handler \in {"hidden", "destroyed"} /\ TT!Run(t, handler, prevented) = n
    BY <1>2 DEF TipHandlers, TT!Run
  <2>2. CASE t.alive
    BY <2>1, <2>2, HideCompleteIs DEF Tame, Calm
  <2>3. CASE ~t.alive
    <3>1. TipFits(n) /\ n.inState = t.inState /\ ~n.alive
      BY <2>3 DEF TipFits, TipFields, Queue, TT!HideComplete, TT!Destroyed, TT!Failed
    <3> HIDE DEF n
    <3> QED  BY <2>1, <2>3, <3>1 DEF Tame, Calm
  <2> QED  BY <2>2, <2>3 DEF TipFits
<1> QED  BY <1>1, <1>2

\* At a transition's end the queue is taken, and run.
TipEndOf(t) == [t EXCEPT !.pending = TT!T!Ended(@, "tip")]

LEMMA TipEndOfIs ==
    ASSUME NEW t, TipFits(t)
    PROVE  LET e == TipEndOf(t) IN
           /\ TipFits(e) /\ Queue(e) = << >>
           /\ e.alive = t.alive /\ e.enabled = t.enabled /\ e.inState = t.inState /\ e.inDom = t.inDom
           /\ e.in = t.in /\ e.fade = t.fade /\ e.described = t.described /\ e.failed = t.failed
           /\ e.hoverState = t.hoverState /\ e.timeout = t.timeout
<1> DEFINE ended == TT!T!Ended(t.pending, "tip")
<1>1. ended \in [{"tip"} -> Seq(TipHandlers)] /\ ended["tip"] = << >>
  BY NothingWaits DEF TipFits, TT!T!Ended
<1>2. TipEndOf(t) = [t EXCEPT !.pending = ended]
  BY DEF TipEndOf, TipFits, TipFields
<1> HIDE DEF ended
<1> QED  BY <1>1, <1>2 DEF TipFits, TipFields, Queue

LEMMA TipEnds ==
    ASSUME NEW t, TipFits(t), NEW prevented
    PROVE  \E step :
             /\ TipRuns(step, TipEndOf(t), Queue(t), prevented)
             /\ \A i \in 0 .. Len(Queue(t)) : TipFits(step[i]) /\ step[i].inState = t.inState
<1>1. Queue(t) \in Seq(TipHandlers) /\ Len(Queue(t)) \in Nat
  BY LenProperties DEF TipFits, Queue
<1>2. PICK step : TipRuns(step, TipEndOf(t), Queue(t), prevented)
  BY <1>1, TipRunsAll
<1> DEFINE S == {i \in 0 .. Len(Queue(t)) : TipFits(step[i]) /\ step[i].inState = t.inState}
<1>3. 0 \in S
  BY <1>1, <1>2, TipEndOfIs DEF TipRuns
<1>4. ASSUME NEW i \in 1 .. Len(Queue(t)), i - 1 \in S PROVE i \in S
  <2>1. Queue(t)[i] \in TipHandlers
    BY <1>1, ElementOfSeq
  <2> QED  BY <1>1, <1>2, <1>4, <2>1, RunIs DEF TipRuns
<1>5. 0 .. Len(Queue(t)) \subseteq S
  <2> HIDE DEF S
  <2> QED  BY <1>1, <1>3, <1>4, UpTo
<1> QED  BY <1>2, <1>5

-----------------------------------------------------------------------------
(* What a tip can be.  rest: the kinds of handlers that are still to be    *)
(* run at the end that is being heard; there are none between two actions. *)

\* A tip is destroyed last, and by a handler that nothing overtakes: once destroy has bound
\* it there is no timeout, and nowhere for the tip to go.
TipQuiet(t) ==
    /\ ~t.failed
    /\ ~t.alive => Queue(t) = << >> /\ t.timeout = "none"
    /\ Dies(Queue(t)) =>
           /\ t.alive /\ t.hoverState = "none" /\ t.timeout = "none"
           /\ \A i \in DOMAIN Queue(t) : Queue(t)[i] = "destroyed" => i = Len(Queue(t))

\* What no one wants is about to leave, or is leaving, or has left.
TipLeft(t, rest) == t.alive /\ t.inState = {} =>
    \/ t.timeout = "hide" /\ t.hoverState = "out"
    \/ /\ t.timeout = "none" /\ t.hoverState = "none" /\ ~t.in
       /\ \/ Departs(Queue(t))
          \/ \E handler \in rest : handler # "shown"
          \/ ~t.inDom /\ ~t.described

\* What someone wants is in the document to stay, or is about to be shown, or is destroyed.
TipWanted(t, rest) == t.alive =>
    /\ t.in => /\ t.inDom /\ t.described /\ ~Departs(Queue(t))
               /\ \A handler \in rest : handler = "shown"
    /\ Queue(t) = << >> \/ t.in \/ Departs(Queue(t))
    /\ t.inState # {} =>
          /\ t.hoverState # "out"
          /\ \/ t.in
             \/ t.hoverState = "in" /\ t.timeout = "show" /\ Queue(t) = << >> /\ rest = {}
             \/ Dies(Queue(t)) \/ "destroyed" \in rest

TipInv ==
    /\ options \in TT!Options
    /\ TipFits(tip)
    /\ disturbed \/ TipQuiet(tip)
    /\ scripted \/ vetoed \/ TipLeft(tip, {})
    /\ scripted \/ refused \/ crossed \/ vetoed \/ TipWanted(tip, {})

\* What an action must leave.
LEMMA TipStep ==
    ASSUME NEW n, TipFits(n), n = tip', UNCHANGED <<transition, options>>, options \in TT!Options,
           disturbed' \/ TipQuiet(n),
           scripted' \/ vetoed' \/ TipLeft(n, {}),
           scripted' \/ refused' \/ crossed' \/ vetoed' \/ TipWanted(n, {})
    PROVE  TipInv'
<1>1. TipFits(tip)'
  BY DEF TipFits, Queue, TT!T!Supported
<1>2. (options \in TT!Options)'
  BY DEF TT!Options
<1> QED  BY <1>1, <1>2 DEF TipInv

LEMMA CalmIsQuiet ==
    ASSUME NEW t, Calm(t)
    PROVE  TipQuiet(t)
BY DEF Calm, TipQuiet

LEMMA DyingDeparts ==
    ASSUME NEW handlers, Dies(handlers)
    PROVE  Departs(handlers)
BY DEF Dies, Departs

\* What the methods leave of the invariants.
LEMMA LeftByLeave ==
    ASSUME NEW t, TipFits(t), t.alive, NEW prevented, "hide" \notin prevented
    PROVE  TipLeft(TT!Leave(t, prevented), {})
<1> DEFINE n == TT!Leave(t, prevented)
<1>1. LeftAs(t, n, prevented, t.hoverState) /\ n.inState = t.inState
  BY LeaveIs DEF Tame
<1>2. "hidden" \in TipHandlers /\ Queue(t) \in Seq(TipHandlers)
  BY DEF TipHandlers, TipFits, Queue
<1>3. Departs(Append(Queue(t), "hidden"))
  BY ONLY <1>2, Appended
<1> HIDE DEF n
<1>4. TipLeft(n, {})
  BY <1>1, <1>3 DEF LeftAs, Swept, TipLeft
<1> QED  BY <1>4 DEF n

LEMMA WantedByLeave ==
    ASSUME NEW t, TipFits(t), TipWanted(t, {}), t.alive, NEW prevented, "hide" \notin prevented
    PROVE  TipWanted(TT!Leave(t, prevented), {})
<1> DEFINE n == TT!Leave(t, prevented)
<1>1. LeftAs(t, n, prevented, t.hoverState) /\ n.inState = t.inState
  BY LeaveIs DEF Tame
<1>2. "hidden" \in TipHandlers /\ Queue(t) \in Seq(TipHandlers)
  BY DEF TipHandlers, TipFits, Queue
<1>3. Departs(Append(Queue(t), "hidden"))
  BY ONLY <1>2, Appended
<1> HIDE DEF n
<1>4. TipWanted(n, {})
  BY <1>1, <1>3 DEF LeftAs, Swept, Still, TipWanted
<1> QED  BY <1>4 DEF n

LEMMA WantedByShow ==
    ASSUME NEW t, TipFits(t), NEW n, TipShown(t, n), ~(Departs(Queue(t)) /\ n.hoverState = "in")
    PROVE  TipWanted(n, {})
<1>1. "shown" \in TipHandlers /\ Queue(t) \in Seq(TipHandlers)
  BY DEF TipHandlers, TipFits, Queue
<1>2. Departs(Append(Queue(t), "shown")) <=> Departs(Queue(t))
  BY ONLY <1>1, Appended
<1> QED  BY <1>2, NothingWaits DEF TipShown, TipWanted

LEMMA WantedByEnter ==
    ASSUME options \in TT!Options, NEW t, TipFits(t), t.alive, t.enabled,
           NEW prevented, "show" \notin prevented,
           t.in => t.inDom /\ t.described /\ ~Departs(Queue(t)),
           Queue(t) = << >> \/ t.in \/ Departs(Queue(t)),
           t.hoverState = "in" /\ ~t.in => (t.timeout = "show" /\ Queue(t) = << >>) \/ Departs(Queue(t)),
           ~(Departs(Queue(t)) /\ TT!Enter(t, prevented).hoverState = "in")
    PROVE  TipWanted(TT!Enter(t, prevented), {})
<1> DEFINE n == TT!Enter(t, prevented)
           cleared == [t EXCEPT !.timeout = "none"]
<1>2. /\ t.in \/ t.hoverState = "in" => Still(t, n) /\ n.hoverState = "in" /\ n.timeout = t.timeout
      /\ ~t.in /\ t.hoverState # "in" =>
             \/ Still(t, n) /\ n.hoverState = "in" /\ n.timeout = "show"
             \/ TipShown(cleared, n)
  BY EnterIs
<1>3. TipFits(cleared) /\ Queue(cleared) = Queue(t)
  BY DEF TipFits, TipFields, Queue
<1> HIDE DEF n, cleared
<1>4. ~(Departs(Queue(t)) /\ n.hoverState = "in")
  BY DEF n
<1>5. CASE TipShown(cleared, n)
  <2>1. TipWanted(n, {})
    BY <1>3, <1>4, <1>5, WantedByShow
  <2> QED  BY <2>1 DEF n
<1>6. CASE Still(t, n) /\ n.hoverState = "in"
           /\ (n.in \/ n.timeout = "show" \/ Departs(Queue(t)))
  <2>1. TipWanted(n, {})
    BY <1>4, <1>6 DEF TipWanted, Still
  <2> QED  BY <2>1 DEF n
<1>7. TipShown(cleared, n) \/ (Still(t, n) /\ n.hoverState = "in"
           /\ (n.in \/ n.timeout = "show" \/ Departs(Queue(t))))
  BY <1>2 DEF Still
<1> QED  BY <1>5, <1>6, <1>7

LEMMA AfterHide ==
    ASSUME NEW t, TipFits(t), t.alive, NEW handler \in {"hidden", "destroyed"}, NEW n, Gone(t, n, handler)
    PROVE  /\ t.timeout = "none" /\ (handler = "hidden" => t.hoverState = "out") => TipLeft(n, {})
           /\ handler = "hidden" /\ t.inState = {} => TipWanted(n, {})
           /\ handler = "destroyed" => TipWanted(n, {})
           /\ handler = "destroyed" /\ t.timeout = "none" /\ Calm(t) => TipQuiet(n)
<1> DEFINE r == Append(Queue(t), handler)
<1>1. handler \in TipHandlers /\ Queue(t) \in Seq(TipHandlers)
  BY DEF TipHandlers, TipFits, Queue
<1>2. /\ r \in Seq(TipHandlers) /\ r # << >>
      /\ Departs(r)
      /\ Dies(r) <=> Dies(Queue(t)) \/ handler = "destroyed"
      /\ Len(r) = Len(Queue(t)) + 1
      /\ \A i \in 1 .. Len(Queue(t)) : r[i] = Queue(t)[i]
  BY <1>1, Appended
<1>3. /\ DOMAIN r = 1 .. Len(Queue(t)) + 1 /\ DOMAIN Queue(t) = 1 .. Len(Queue(t))
      /\ Len(Queue(t)) \in Nat
  BY <1>1, <1>2, LenProperties
<1> HIDE DEF r
<1>4. ~Dies(Queue(t)) => \A i \in DOMAIN r : r[i] = "destroyed" => i = Len(r)
  BY <1>2, <1>3 DEF Dies
<1>5. t.timeout = "none" /\ (handler = "hidden" => t.hoverState = "out") => TipLeft(n, {})
  BY <1>2 DEF Gone, TipLeft, r
<1>6. /\ handler = "hidden" /\ t.inState = {} => TipWanted(n, {})
      /\ handler = "destroyed" => TipWanted(n, {})
  BY <1>2 DEF Gone, TipWanted, r
<1>7. handler = "destroyed" /\ t.timeout = "none" /\ Calm(t) => TipQuiet(n)
  <2> SUFFICES ASSUME handler = "destroyed", t.timeout = "none", Calm(t) PROVE TipQuiet(n)
    OBVIOUS
  <2>1. ~n.failed /\ n.timeout = "none" /\ n.hoverState = "none"
    BY DEF Gone, Calm
  <2>2. CASE n.alive
    BY <1>4, <2>1, <2>2 DEF Gone, TipQuiet, Calm, r
  <2>3. CASE ~n.alive
    BY <2>1, <2>3, NothingWaits DEF Gone, TipQuiet
  <2> QED  BY <2>2, <2>3
<1> QED  BY <1>5, <1>6, <1>7

LEMMA LeftByRun ==
    ASSUME NEW t, TipFits(t), NEW handler \in TipHandlers, NEW rest,
           NEW prevented, "hide" \notin prevented, TipLeft(t, rest \cup {handler})
    PROVE  TipLeft(TT!Run(t, handler, prevented), rest)
<1> DEFINE n == TT!Run(t, handler, prevented)
<1>0. (n.alive => t.alive) /\ n.inState = t.inState
  BY RunIs
<1>1. CASE handler = "shown"
  <2>1. n = TT!ShowComplete(t, prevented)
    BY <1>1 DEF TT!Run
  <2>2. /\ t.alive /\ t.hoverState # "out" =>
               Still(t, n) /\ n.hoverState = "none" /\ n.timeout = t.timeout
        /\ t.alive /\ t.hoverState = "out" => LeftAs(t, n, prevented, "none")
    BY <2>1, ShowCompleteIs
  <2>3. Departs(Append(Queue(t), "hidden"))
    <3>1. "hidden" \in TipHandlers /\ Queue(t) \in Seq(TipHandlers)
      BY DEF TipHandlers, TipFits, Queue
    <3> QED  BY ONLY <3>1, Appended
  <2> HIDE DEF n
  <2>4. TipLeft(n, rest)
    <3> SUFFICES ASSUME t.alive, t.inState = {}, n.alive, n.inState = {} PROVE TipLeft(n, rest)
      BY <1>0 DEF TipLeft
    <3>1. CASE t.hoverState = "out"
      BY <2>2, <2>3, <3>1 DEF TipLeft, LeftAs, Swept
    <3>2. CASE t.hoverState # "out"
      BY <1>1, <2>2, <3>2 DEF TipLeft, Still
    <3> QED  BY <3>1, <3>2
  <2> QED  BY <2>4 DEF n
<1>2. CASE handler # "shown"
  <2>1. n = TT!HideComplete(t, handler) /\ handler \in {"hidden", "destroyed"}
    BY <1>2 DEF TT!Run, TipHandlers
  <2> HIDE DEF n
  <2>2. t.alive => /\ Queue(n) = Queue(t) /\ n.timeout = t.timeout /\ n.hoverState = t.hoverState
                   /\ ~n.described /\ (t.hoverState # "in" => ~n.inDom) /\ (n.in => t.in)
    BY <2>1, HideCompleteIs
  <2>3. TipLeft(n, rest)
    BY <1>0, <2>2 DEF TipLeft
  <2> QED  BY <2>3 DEF n
<1> QED  BY <1>1, <1>2

LEMMA WantedByRun ==
    ASSUME NEW t, TipFits(t), NEW handler \in TipHandlers, NEW rest,
           NEW prevented, "hide" \notin prevented, TipWanted(t, rest \cup {handler})
    PROVE  TipWanted(TT!Run(t, handler, prevented), rest)
<1> DEFINE n == TT!Run(t, handler, prevented)
<1>0. (n.alive => t.alive) /\ n.inState = t.inState
  BY RunIs
<1>a. rest \cup {handler} # {}
  OBVIOUS
<1>1. CASE handler = "shown"
  <2>1. n = TT!ShowComplete(t, prevented)
    BY <1>1 DEF TT!Run
  <2>2. /\ t.alive /\ t.hoverState # "out" =>
               Still(t, n) /\ n.hoverState = "none" /\ n.timeout = t.timeout
        /\ t.alive /\ t.hoverState = "out" => LeftAs(t, n, prevented, "none")
    BY <2>1, ShowCompleteIs
  <2>3. Departs(Append(Queue(t), "hidden"))
    <3>1. "hidden" \in TipHandlers /\ Queue(t) \in Seq(TipHandlers)
      BY DEF TipHandlers, TipFits, Queue
    <3> QED  BY ONLY <3>1, Appended
  <2> HIDE DEF n
  <2>4. TipWanted(n, rest)
    <3> SUFFICES ASSUME t.alive, n.alive PROVE TipWanted(n, rest)
      BY <1>0 DEF TipWanted
    <3>1. CASE t.hoverState = "out"
      BY <1>0, <1>a, <2>2, <2>3, <3>1 DEF TipWanted, LeftAs, Swept, Still
    <3>2. CASE t.hoverState # "out"
      BY <1>0, <1>1, <1>a, <2>2, <3>2 DEF TipWanted, Still
    <3> QED  BY <3>1, <3>2
  <2> QED  BY <2>4 DEF n
<1>2. CASE handler # "shown"
  <2>1. n = TT!HideComplete(t, handler) /\ handler \in {"hidden", "destroyed"}
    BY <1>2 DEF TT!Run, TipHandlers
  <2> HIDE DEF n
  <2>2. t.alive => /\ Queue(n) = Queue(t) /\ n.timeout = t.timeout /\ n.hoverState = t.hoverState
                   /\ n.in => t.in
                   /\ n.alive <=> handler # "destroyed"
    BY <2>1, HideCompleteIs
  <2>3. TipWanted(n, rest)
    BY <1>0, <1>2, <1>a, <2>2 DEF TipWanted
  <2> QED  BY <2>3 DEF n
<1> QED  BY <1>1, <1>2

\* The end of a transition, invariant by invariant.
LEMMA LeftAtEnd ==
    ASSUME NEW t, TipFits(t), NEW prevented, "hide" \notin prevented, TipLeft(t, {})
    PROVE  TipLeft(TT!RunAll(TipEndOf(t), Queue(t), prevented), {})
<1>1. Queue(t) \in Seq(TipHandlers) /\ Len(Queue(t)) \in Nat
  BY LenProperties DEF TipFits, Queue
<1>2. PICK step : /\ TipRuns(step, TipEndOf(t), Queue(t), prevented)
                  /\ \A i \in 0 .. Len(Queue(t)) : TipFits(step[i]) /\ step[i].inState = t.inState
  BY TipEnds
<1>3. /\ \A i \in 1 .. Len(Queue(t)) : Rest(Queue(t), i - 1) = Rest(Queue(t), i) \cup {Queue(t)[i]}
      /\ Rest(Queue(t), Len(Queue(t))) = {}
      /\ Departs(Queue(t)) <=> \E handler \in Rest(Queue(t), 0) : handler # "shown"
  BY ONLY <1>1, RestIs
<1> DEFINE S == {i \in 0 .. Len(Queue(t)) : TipLeft(step[i], Rest(Queue(t), i))}
<1>4. 0 \in S
  <2>1. step[0] = TipEndOf(t)
    BY <1>2 DEF TipRuns
  <2>2. TipLeft(step[0], Rest(Queue(t), 0))
    BY <1>3, <2>1, TipEndOfIs DEF TipLeft
  <2> QED  BY <1>1, <2>2
<1>5. ASSUME NEW i \in 1 .. Len(Queue(t)), i - 1 \in S PROVE i \in S
  <2>1. Queue(t)[i] \in TipHandlers
    BY <1>1, ElementOfSeq
  <2>2. TipLeft(step[i - 1], Rest(Queue(t), i) \cup {Queue(t)[i]}) /\ TipFits(step[i - 1])
    BY <1>1, <1>2, <1>3, <1>5
  <2>3. TipLeft(TT!Run(step[i - 1], Queue(t)[i], prevented), Rest(Queue(t), i))
    BY ONLY <2>1, <2>2, LeftByRun, "hide" \notin prevented
  <2> QED  BY <1>1, <1>2, <2>3 DEF TipRuns
<1>6. Len(Queue(t)) \in S
  <2> HIDE DEF S
  <2>1. 0 .. Len(Queue(t)) \subseteq S
    BY <1>1, <1>4, <1>5, UpTo
  <2> QED  BY <1>1, <2>1
<1> QED  BY <1>2, <1>3, <1>6 DEF TipRuns

LEMMA WantedAtEnd ==
    ASSUME NEW t, TipFits(t), Queue(t) # << >>, NEW prevented, "hide" \notin prevented, TipWanted(t, {})
    PROVE  TipWanted(TT!RunAll(TipEndOf(t), Queue(t), prevented), {})
<1>1. Queue(t) \in Seq(TipHandlers) /\ Len(Queue(t)) \in Nat
  BY LenProperties DEF TipFits, Queue
<1>2. PICK step : /\ TipRuns(step, TipEndOf(t), Queue(t), prevented)
                  /\ \A i \in 0 .. Len(Queue(t)) : TipFits(step[i]) /\ step[i].inState = t.inState
  BY TipEnds
<1>3. /\ \A i \in 1 .. Len(Queue(t)) : Rest(Queue(t), i - 1) = Rest(Queue(t), i) \cup {Queue(t)[i]}
      /\ Rest(Queue(t), Len(Queue(t))) = {}
      /\ Departs(Queue(t)) <=> \E handler \in Rest(Queue(t), 0) : handler # "shown"
      /\ Dies(Queue(t)) <=> "destroyed" \in Rest(Queue(t), 0)
  BY ONLY <1>1, RestIs
<1> DEFINE S == {i \in 0 .. Len(Queue(t)) : TipWanted(step[i], Rest(Queue(t), i))}
<1>4. 0 \in S
  <2>1. step[0] = TipEndOf(t)
    BY <1>2 DEF TipRuns
  <2>2. TipWanted(step[0], Rest(Queue(t), 0))
    BY <1>3, <2>1, TipEndOfIs, NothingWaits DEF TipWanted
  <2> QED  BY <1>1, <2>2
<1>5. ASSUME NEW i \in 1 .. Len(Queue(t)), i - 1 \in S PROVE i \in S
  <2>1. Queue(t)[i] \in TipHandlers
    BY <1>1, ElementOfSeq
  <2>2. TipWanted(step[i - 1], Rest(Queue(t), i) \cup {Queue(t)[i]}) /\ TipFits(step[i - 1])
    BY <1>1, <1>2, <1>3, <1>5
  <2>3. TipWanted(TT!Run(step[i - 1], Queue(t)[i], prevented), Rest(Queue(t), i))
    BY ONLY <2>1, <2>2, WantedByRun, "hide" \notin prevented
  <2> QED  BY <1>1, <1>2, <2>3 DEF TipRuns
<1>6. Len(Queue(t)) \in S
  <2> HIDE DEF S
  <2>1. 0 .. Len(Queue(t)) \subseteq S
    BY <1>1, <1>4, <1>5, UpTo
  <2> QED  BY <1>1, <2>1
<1> QED  BY <1>2, <1>3, <1>6 DEF TipRuns

\* Before its last transition ends nothing moves a tip that is being destroyed.
Waits(t) ==
    /\ t.alive /\ ~t.failed /\ Queue(t) = << >>
    /\ t.hoverState = "none" /\ t.timeout = "none"

LEMMA QuietAtEnd ==
    ASSUME NEW t, TipFits(t), Queue(t) # << >>, NEW prevented, TipQuiet(t)
    PROVE  TipQuiet(TT!RunAll(TipEndOf(t), Queue(t), prevented))
<1> DEFINE len == Len(Queue(t))
<1>1. /\ Queue(t) \in Seq(TipHandlers) /\ len \in Nat /\ DOMAIN Queue(t) = 1 .. len
      /\ len > 0 /\ t.alive /\ ~t.failed
  <2>1. Queue(t) \in Seq(TipHandlers)
    BY DEF TipFits, Queue
  <2> QED  BY <2>1, LenProperties, EmptySeq DEF TipQuiet
<1>2. PICK step : /\ TipRuns(step, TipEndOf(t), Queue(t), prevented)
                  /\ \A i \in 0 .. len : TipFits(step[i]) /\ step[i].inState = t.inState
  BY TipEnds
<1>3. \A i \in 1 .. len : Queue(t)[i] \in TipHandlers
  BY <1>1, ElementOfSeq
<1>4. step[0] = TipEndOf(t) /\ Queue(step[0]) = << >> /\ step[0].alive /\ ~step[0].failed
      /\ step[0].hoverState = t.hoverState /\ step[0].timeout = t.timeout
  BY <1>1, <1>2, TipEndOfIs DEF TipRuns
<1>5. \A i \in 1 .. len : step[i] = TT!Run(step[i - 1], Queue(t)[i], prevented)
  BY <1>2 DEF TipRuns
<1>6. CASE ~Dies(Queue(t))
  <2> DEFINE S == {i \in 0 .. len : Calm(step[i])}
  <2>1. 0 \in S
    BY <1>1, <1>4, NothingWaits DEF Calm
  <2>2. ASSUME NEW i \in 1 .. len, i - 1 \in S PROVE i \in S
    <3>1. Queue(t)[i] \in TipHandlers /\ Queue(t)[i] # "destroyed"
      BY <1>1, <1>3, <1>6 DEF Dies
    <3>2. TipFits(step[i - 1]) /\ Calm(step[i - 1])
      BY <1>1, <1>2, <2>2
    <3>3. Tame(step[i - 1], TT!Run(step[i - 1], Queue(t)[i], prevented))
      BY ONLY <3>1, <3>2, RunIs
    <3> QED  BY <1>5, <3>2, <3>3 DEF Tame
  <2>3. len \in S
    <3> HIDE DEF S, len
    <3>1. 0 .. len \subseteq S
      BY <1>1, <2>1, <2>2, UpTo
    <3> QED  BY <1>1, <3>1
  <2> QED  BY <1>2, <2>3, CalmIsQuiet DEF TipRuns
<1>7. CASE Dies(Queue(t))
  <2>1. /\ Queue(t)[len] = "destroyed"
        /\ \A i \in 1 .. len : Queue(t)[i] = "destroyed" => i = len
        /\ t.hoverState = "none" /\ t.timeout = "none"
    BY <1>1, <1>7 DEF TipQuiet, Dies
  <2> DEFINE S == {i \in 0 .. len - 1 : Waits(step[i])}
  <2>a. /\ 0 \in 0 .. len - 1 /\ len \in 1 .. len
        /\ \A i \in 1 .. len - 1 : i \in 1 .. len /\ i - 1 \in 0 .. len /\ i # len /\ i \in 0 .. len - 1
    <3> HIDE DEF len
    <3> QED  BY <1>1
  <2>b. Waits(step[0])
    BY <1>4, <2>1 DEF Waits
  <2>2. 0 \in S
    BY <2>a, <2>b
  <2>3. ASSUME NEW i \in 1 .. len - 1, i - 1 \in S PROVE i \in S
    <3>1. /\ Queue(t)[i] \in {"shown", "hidden"}
          /\ TipFits(step[i - 1]) /\ Waits(step[i - 1])
          /\ step[i] = TT!Run(step[i - 1], Queue(t)[i], prevented)
      <4>1. i \in 1 .. len /\ i - 1 \in 0 .. len /\ i # len
        BY <2>a
      <4>2. Queue(t)[i] \in {"shown", "hidden"}
        BY <1>3, <2>1, <4>1 DEF TipHandlers
      <4> QED  BY <1>2, <1>5, <2>3, <4>1, <4>2
    <3>2. PICK s : s = step[i - 1]
      OBVIOUS
    <3>3. CASE Queue(t)[i] = "shown"
      <4>1. TT!Run(s, "shown", prevented) = TT!ShowComplete(s, prevented)
        BY DEF TT!Run
      <4>2. Still(s, TT!ShowComplete(s, prevented))
            /\ TT!ShowComplete(s, prevented).hoverState = "none"
            /\ TT!ShowComplete(s, prevented).timeout = s.timeout
        BY <3>1, <3>2, ShowCompleteIs DEF Waits
      <4> QED  BY <3>1, <3>2, <3>3, <4>1, <4>2 DEF Waits, Still
    <3>4. CASE Queue(t)[i] = "hidden"
      <4>1. TT!Run(s, "hidden", prevented) = TT!HideComplete(s, "hidden")
        BY DEF TT!Run
      <4>2. LET n == TT!HideComplete(s, "hidden") IN
            /\ n.alive /\ ~n.failed /\ Queue(n) = << >>
            /\ n.hoverState = "none" /\ n.timeout = "none"
        BY <3>1, <3>2, HideCompleteIs DEF Waits
      <4> QED  BY <3>1, <3>2, <3>4, <4>1, <4>2 DEF Waits
    <3> QED  BY <2>a, <3>1, <3>3, <3>4
  <2>4. Waits(step[len - 1]) /\ TipFits(step[len - 1])
    <3>1. len - 1 \in Nat /\ len - 1 \in 0 .. len - 1 /\ len - 1 \in 0 .. len
      BY <1>1
    <3> HIDE DEF len
    <3>2. 0 .. len - 1 \subseteq S
      <4> HIDE DEF S
      <4> QED  BY <2>2, <2>3, <3>1, UpTo
    <3> QED  BY <1>2, <3>1, <3>2
  <2>5. step[len] = TT!HideComplete(step[len - 1], "destroyed")
    BY <1>5, <2>1, <2>a DEF TT!Run
  <2>6. LET n == TT!HideComplete(step[len - 1], "destroyed") IN
        ~n.alive /\ ~n.failed /\ Queue(n) = << >> /\ n.timeout = "none"
    BY <2>4, HideCompleteIs DEF Waits
  <2>7. TipQuiet(step[len])
    BY <2>5, <2>6, NothingWaits DEF TipQuiet
  <2> QED  BY <1>2, <2>7 DEF TipRuns
<1> QED  BY <1>6, <1>7

-----------------------------------------------------------------------------
(* Every action keeps these.                                               *)

\* What the flags remember of an event or a call.
LEMMA DoesIs ==
    ASSUME TipInv, NEW n, NEW prevented, TT!Does(n, prevented)
    PROVE  /\ n = tip' /\ UNCHANGED <<transition, options>> /\ options \in TT!Options
           /\ TipFits(tip) /\ tip.alive
           /\ ~vetoed' => ~vetoed /\ "hide" \notin prevented
           /\ ~refused' => ~refused /\ "show" \notin prevented /\ tip.enabled
           /\ ~crossed' => ~crossed /\ ~(Departs(Queue(tip)) /\ n.hoverState = "in")
           /\ ~disturbed' => Calm(tip)
BY DEF TT!Does, TT!Remember, TT!Dying, TT!Leaving, TipInv, TipQuiet, Calm, Departs, Dies, Queue

LEMMA StateIs ==
    ASSUME TipFits(tip), NEW S, S \subseteq TT!Triggers
    PROVE  LET t == [tip EXCEPT !.inState = S] IN
           /\ TipFits(t) /\ t.inState = S /\ Queue(t) = Queue(tip)
           /\ t.alive = tip.alive /\ t.enabled = tip.enabled /\ t.failed = tip.failed
           /\ t.in = tip.in /\ t.inDom = tip.inDom /\ t.described = tip.described
           /\ t.hoverState = tip.hoverState /\ t.timeout = tip.timeout
           /\ Calm(tip) => Calm(t)
BY DEF TipFits, TipFields, Queue, Calm

\* Someone comes to want the tip.
LEMMA EnterDone ==
    ASSUME TipInv, NEW S, S \subseteq TT!Triggers, S # {}, NEW prevented, UNCHANGED scripted,
           TT!Does(TT!Enter([tip EXCEPT !.inState = S], prevented), prevented)
    PROVE  TipInv'
<1> DEFINE t == [tip EXCEPT !.inState = S]
           n == TT!Enter(t, prevented)
<1>1. /\ n = tip' /\ UNCHANGED <<transition, options>> /\ options \in TT!Options
      /\ TipFits(tip) /\ tip.alive
      /\ ~vetoed' => ~vetoed /\ "hide" \notin prevented
      /\ ~refused' => ~refused /\ "show" \notin prevented /\ tip.enabled
      /\ ~crossed' => ~crossed /\ ~(Departs(Queue(tip)) /\ n.hoverState = "in")
      /\ ~disturbed' => Calm(tip)
  BY DoesIs
<1>2. /\ TipFits(t) /\ t.inState = S /\ Queue(t) = Queue(tip)
      /\ t.alive = tip.alive /\ t.enabled = tip.enabled
      /\ t.in = tip.in /\ t.inDom = tip.inDom /\ t.described = tip.described
      /\ t.hoverState = tip.hoverState /\ t.timeout = tip.timeout
      /\ Calm(tip) => Calm(t)
  BY <1>1, StateIs
<1> HIDE DEF t
<1>3. Tame(t, n)
  BY <1>1, <1>2, EnterIs
<1>4. ~disturbed' => TipQuiet(n)
  BY <1>1, <1>2, <1>3, CalmIsQuiet DEF Tame
<1>5. TipLeft(n, {})
  BY <1>2, <1>3 DEF Tame, TipLeft
<1>6. ~scripted' /\ ~refused' /\ ~crossed' /\ ~vetoed' => TipWanted(n, {})
  <2> SUFFICES ASSUME ~scripted', ~refused', ~crossed', ~vetoed' PROVE TipWanted(n, {})
    OBVIOUS
  <2>1. TipWanted(tip, {}) /\ TipLeft(tip, {})
    BY <1>1 DEF TipInv
  <2>2. /\ t.in => t.inDom /\ t.described /\ ~Departs(Queue(t))
        /\ Queue(t) = << >> \/ t.in \/ Departs(Queue(t))
    BY <1>1, <1>2, <2>1 DEF TipWanted
  <2>3. t.hoverState = "in" /\ ~t.in => (t.timeout = "show" /\ Queue(t) = << >>) \/ Departs(Queue(t))
    BY <1>1, <1>2, <2>1, DyingDeparts DEF TipWanted, TipLeft
  <2>4. ~(Departs(Queue(t)) /\ n.hoverState = "in") /\ "show" \notin prevented /\ t.alive /\ t.enabled
    BY <1>1, <1>2
  <2> QED  BY ONLY <1>1, <1>2, <2>2, <2>3, <2>4, WantedByEnter
<1> HIDE DEF n
<1>7. TipFits(n)
  BY <1>3 DEF Tame
<1> QED  BY ONLY <1>1, <1>4, <1>5, <1>6, <1>7, TipStep

\* Someone no longer wants it.
LEMMA LeaveDone ==
    ASSUME TipInv, NEW S, S \subseteq tip.inState, NEW prevented, UNCHANGED scripted,
           TT!Does(TT!Leave([tip EXCEPT !.inState = S], prevented), prevented)
    PROVE  TipInv'
<1> DEFINE t == [tip EXCEPT !.inState = S]
           n == TT!Leave(t, prevented)
<1>1. /\ n = tip' /\ UNCHANGED <<transition, options>> /\ options \in TT!Options
      /\ TipFits(tip) /\ tip.alive
      /\ ~vetoed' => ~vetoed /\ "hide" \notin prevented
      /\ ~refused' => ~refused /\ "show" \notin prevented /\ tip.enabled
      /\ ~crossed' => ~crossed /\ ~(Departs(Queue(tip)) /\ n.hoverState = "in")
      /\ ~disturbed' => Calm(tip)
  BY DoesIs
<1>2. /\ TipFits(t) /\ t.inState = S /\ Queue(t) = Queue(tip)
      /\ t.alive = tip.alive /\ t.enabled = tip.enabled
      /\ t.in = tip.in /\ t.inDom = tip.inDom /\ t.described = tip.described
      /\ t.hoverState = tip.hoverState /\ t.timeout = tip.timeout
      /\ Calm(tip) => Calm(t)
  <2>1. S \subseteq TT!Triggers
    BY <1>1 DEF TipFits
  <2> QED  BY <1>1, <2>1, StateIs
<1> HIDE DEF t
<1>3. Tame(t, n)
  BY <1>2, LeaveIs
<1>4. ~disturbed' => TipQuiet(n)
  BY <1>1, <1>2, <1>3, CalmIsQuiet DEF Tame
<1>5. ~vetoed' => TipLeft(n, {})
  BY <1>1, <1>2, LeftByLeave
<1>6. ~scripted' /\ ~refused' /\ ~crossed' /\ ~vetoed' => TipWanted(n, {})
  <2> SUFFICES ASSUME ~scripted', ~refused', ~crossed', ~vetoed' PROVE TipWanted(n, {})
    OBVIOUS
  <2>1. TipWanted(tip, {})
    BY <1>1 DEF TipInv
  <2>2. TipWanted(t, {})
    BY <1>1, <1>2, <2>1 DEF TipWanted
  <2> QED  BY <1>1, <1>2, <2>2, WantedByLeave
<1> HIDE DEF n
<1>7. TipFits(n)
  BY <1>3 DEF Tame
<1> QED  BY ONLY <1>1, <1>4, <1>5, <1>6, <1>7, TipStep

\* A script shows, hides or toggles.
LEMMA ScriptDone ==
    ASSUME TipInv, NEW n, NEW prevented, TT!Does(n, prevented), scripted' = TRUE, Tame(tip, n)
    PROVE  TipInv'
<1>1. /\ n = tip' /\ UNCHANGED <<transition, options>> /\ options \in TT!Options
      /\ ~disturbed' => Calm(tip)
  BY DoesIs
<1>2. TipFits(n) /\ (disturbed' \/ TipQuiet(n))
  BY <1>1, CalmIsQuiet DEF Tame
<1> QED  BY <1>1, <1>2, TipStep

LEMMA DestroyDone ==
    ASSUME TipInv, NEW prevented, UNCHANGED scripted, TT!Does(TT!Destroy(tip, prevented), prevented)
    PROVE  TipInv'
<1> DEFINE t == [tip EXCEPT !.timeout = "none"]
           n == TT!Destroy(tip, prevented)
<1>1. /\ n = tip' /\ UNCHANGED <<transition, options>> /\ options \in TT!Options
      /\ TipFits(tip) /\ tip.alive
      /\ ~vetoed' => ~vetoed /\ "hide" \notin prevented
      /\ ~refused' => ~refused /\ "show" \notin prevented /\ tip.enabled
      /\ ~crossed' => ~crossed /\ ~(Departs(Queue(tip)) /\ n.hoverState = "in")
      /\ ~disturbed' => Calm(tip)
  BY DoesIs
<1>2. n = TT!Hide(t, "destroyed", prevented)
  BY DEF TT!Destroy
<1>3. TipFits(t) /\ Still(tip, t) /\ t.timeout = "none"
  BY <1>1 DEF TipFits, TipFields, Still, Queue
<1> HIDE DEF t
<1>4. /\ TipFits(n)
      /\ "hide" \in prevented => n = t
      /\ "hide" \notin prevented => Gone(t, n, "destroyed")
  BY <1>1, <1>2, <1>3, HideIs DEF Still
<1> HIDE DEF n
<1>5. Calm(tip) => Calm(t)
  BY <1>3 DEF Still, Calm
<1>6. ~disturbed' => TipQuiet(n)
  BY <1>1, <1>3, <1>4, <1>5, CalmIsQuiet, AfterHide DEF Still
<1>7. ~vetoed' => TipLeft(n, {}) /\ TipWanted(n, {})
  BY <1>1, <1>3, <1>4, AfterHide DEF Still
<1> QED  BY <1>1, <1>4, <1>6, <1>7, TipStep

LEMMA ToggleEnabledDone ==
    ASSUME TipInv, UNCHANGED scripted, TT!Does([tip EXCEPT !.enabled = ~@], {})
    PROVE  TipInv'
<1> DEFINE n == [tip EXCEPT !.enabled = ~@]
<1>1. /\ n = tip' /\ UNCHANGED <<transition, options>> /\ options \in TT!Options
      /\ TipFits(tip)
      /\ ~vetoed' => ~vetoed
      /\ ~refused' => ~refused
      /\ ~crossed' => ~crossed
      /\ ~disturbed' => Calm(tip)
  BY DoesIs
<1>2. /\ TipFits(n) /\ Queue(n) = Queue(tip) /\ n.inState = tip.inState
      /\ n.alive = tip.alive /\ n.failed = tip.failed
      /\ n.in = tip.in /\ n.inDom = tip.inDom /\ n.described = tip.described
      /\ n.hoverState = tip.hoverState /\ n.timeout = tip.timeout
  BY <1>1 DEF TipFits, TipFields, Queue
<1> HIDE DEF n
<1>3. ~disturbed' => TipQuiet(n)
  BY <1>1, <1>2, CalmIsQuiet DEF Calm
<1>4. /\ TipLeft(tip, {}) => TipLeft(n, {})
      /\ TipWanted(tip, {}) => TipWanted(n, {})
  BY <1>2 DEF TipLeft, TipWanted
<1> QED  BY <1>1, <1>2, <1>3, <1>4, TipStep DEF TipInv

\* What the flags remember of a timeout or an end.
LEMMA RemembersIs ==
    ASSUME TipInv, NEW prevented, TT!Remember(prevented),
           UNCHANGED <<transition, options, scripted, disturbed>>
    PROVE  /\ options \in TT!Options /\ TipFits(tip)
           /\ ~vetoed' => ~vetoed /\ "hide" \notin prevented
           /\ ~refused' => ~refused /\ "show" \notin prevented /\ tip.enabled
           /\ ~crossed' => ~crossed /\ ~(Departs(Queue(tip)) /\ tip'.hoverState = "in")
           /\ ~disturbed' => TipQuiet(tip)
           /\ ~scripted' /\ ~vetoed' => TipLeft(tip, {})
           /\ ~scripted' /\ ~refused' /\ ~crossed' /\ ~vetoed' => TipWanted(tip, {})
BY DEF TT!Remember, TT!Leaving, TipInv, Departs, Queue

LEMMA EndDone ==
    ASSUME TipInv, NEW prevented, TT!End(prevented)
    PROVE  TipInv'
<1>1. /\ Queue(tip) # << >> /\ TT!Remember(prevented)
      /\ tip' = TT!RunAll(TipEndOf(tip), Queue(tip), prevented)
      /\ UNCHANGED <<transition, options, scripted, disturbed>>
  BY DEF TT!End, Queue, TipEndOf
<1>2. PICK t : t = tip
  OBVIOUS
<1> DEFINE n == TT!RunAll(TipEndOf(t), Queue(t), prevented)
<1>3. n = tip'
  BY <1>1, <1>2
<1>4. /\ options \in TT!Options /\ TipFits(t) /\ Queue(t) # << >>
      /\ ~vetoed' => "hide" \notin prevented
      /\ ~disturbed' => TipQuiet(t)
      /\ ~scripted' /\ ~vetoed' => TipLeft(t, {})
      /\ ~scripted' /\ ~refused' /\ ~crossed' /\ ~vetoed' => TipWanted(t, {})
  BY <1>1, <1>2, RemembersIs
<1>5. TipFits(n)
  <2>1. PICK step : /\ TipRuns(step, TipEndOf(t), Queue(t), prevented)
                    /\ \A i \in 0 .. Len(Queue(t)) : TipFits(step[i]) /\ step[i].inState = t.inState
    BY <1>4, TipEnds
  <2>2. Len(Queue(t)) \in 0 .. Len(Queue(t))
    BY <1>4, LenProperties DEF TipFits, Queue
  <2> QED  BY <2>1, <2>2 DEF TipRuns
<1>6. ~disturbed' => TipQuiet(n)
  BY <1>4, QuietAtEnd
<1>7. ~scripted' /\ ~vetoed' => TipLeft(n, {})
  BY <1>4, LeftAtEnd
<1>8. ~scripted' /\ ~refused' /\ ~crossed' /\ ~vetoed' => TipWanted(n, {})
  BY <1>4, WantedAtEnd
<1> HIDE DEF n
<1> QED  BY <1>1, <1>3, <1>4, <1>5, <1>6, <1>7, <1>8, TipStep

LEMMA TimeoutDone ==
    ASSUME TipInv, NEW prevented, TT!Timeout(prevented)
    PROVE  TipInv'
<1> DEFINE due == [tip EXCEPT !.timeout = "none"]
<1>1. /\ TT!Remember(prevented) /\ tip.timeout # "none"
      /\ UNCHANGED <<transition, options, scripted, disturbed>>
  BY DEF TT!Timeout
<1>2. PICK n : n = tip'
  OBVIOUS
<1>3. n = IF tip.timeout = "show" /\ tip.hoverState = "in" THEN TT!Show(due, prevented)
          ELSE IF tip.timeout = "hide" /\ tip.hoverState = "out" THEN TT!Hide(due, "hidden", prevented)
          ELSE due
  BY <1>2 DEF TT!Timeout
<1>4. /\ options \in TT!Options /\ TipFits(tip)
      /\ ~vetoed' => ~vetoed /\ "hide" \notin prevented
      /\ ~refused' => ~refused /\ "show" \notin prevented /\ tip.enabled
      /\ ~crossed' => ~crossed /\ ~(Departs(Queue(tip)) /\ n.hoverState = "in")
      /\ ~disturbed' => TipQuiet(tip)
      /\ ~scripted' /\ ~vetoed' => TipLeft(tip, {})
      /\ ~scripted' /\ ~refused' /\ ~crossed' /\ ~vetoed' => TipWanted(tip, {})
  BY <1>1, <1>2, RemembersIs
<1>5. TipFits(due) /\ Still(tip, due) /\ due.timeout = "none" /\ due.hoverState = tip.hoverState
  BY <1>4 DEF TipFits, TipFields, Still, Queue
<1> HIDE DEF due
<1>6. Tame(due, n)
  <2>1. TipFits(due) => Tame(due, due)
    BY DEF Tame
  <2> QED  BY <1>3, <1>4, <1>5, <2>1, ShowIs, HideIsTame
<1>7. ~disturbed' => TipQuiet(n)
  <2> SUFFICES ASSUME ~disturbed' PROVE TipQuiet(n)
    OBVIOUS
  <2>1. Calm(tip)
    BY <1>1, <1>4 DEF TipQuiet, Calm
  <2>2. Calm(n)
    BY <1>5, <1>6, <2>1 DEF Still, Calm, Tame
  <2> QED  BY <2>2, CalmIsQuiet
<1>8. n.alive => tip.alive /\ due.alive
  BY <1>5, <1>6 DEF Tame, Still
<1>9. CASE tip.timeout = "show" /\ tip.hoverState = "in"
  <2>1. ~scripted' /\ ~vetoed' => TipLeft(n, {})
    BY <1>4, <1>5, <1>6, <1>8, <1>9 DEF TipLeft, Tame, Still
  <2>2. due.alive /\ due.enabled /\ "show" \notin prevented => TipShown(due, n)
    BY <1>3, <1>4, <1>5, <1>9, ShowIs
  <2>3. ~scripted' /\ ~refused' /\ ~crossed' /\ ~vetoed' => TipWanted(n, {})
    <3> SUFFICES ASSUME ~scripted', ~refused', ~crossed', ~vetoed', n.alive PROVE TipWanted(n, {})
      BY DEF TipWanted
    <3>1. TipShown(due, n)
      BY <1>4, <1>5, <1>8, <2>2 DEF Still
    <3>2. ~(Departs(Queue(due)) /\ n.hoverState = "in")
      BY <1>4, <1>5 DEF Still
    <3> QED  BY <1>5, <3>1, <3>2, WantedByShow
  <2> QED  BY <1>1, <1>2, <1>4, <1>6, <1>7, <2>1, <2>3, TipStep DEF Tame
<1>10. CASE tip.timeout = "hide" /\ tip.hoverState = "out"
  <2>1. due.alive /\ "hide" \notin prevented => Gone(due, n, "hidden")
    BY <1>3, <1>5, <1>10, HideIs
  <2>2. ~scripted' /\ ~vetoed' => TipLeft(n, {})
    <3> SUFFICES ASSUME ~vetoed', n.alive PROVE TipLeft(n, {})
      BY DEF TipLeft
    <3> QED  BY <1>4, <1>5, <1>8, <1>10, <2>1, AfterHide
  <2>3. ~scripted' /\ ~refused' /\ ~crossed' /\ ~vetoed' => TipWanted(n, {})
    <3> SUFFICES ASSUME ~scripted', ~refused', ~crossed', ~vetoed', n.alive PROVE TipWanted(n, {})
      BY DEF TipWanted
    <3>1. due.inState = {}
      BY <1>4, <1>5, <1>8, <1>10 DEF TipWanted, Still
    <3> QED  BY <1>4, <1>5, <1>8, <2>1, <3>1, AfterHide
  <2> QED  BY <1>1, <1>2, <1>4, <1>6, <1>7, <2>2, <2>3, TipStep DEF Tame
<1>11. CASE /\ ~(tip.timeout = "show" /\ tip.hoverState = "in")
            /\ ~(tip.timeout = "hide" /\ tip.hoverState = "out")
  <2>1. n = due
    BY <1>3, <1>11
  <2>2. ~scripted' /\ ~vetoed' => TipLeft(n, {})
    BY <1>1, <1>4, <1>5, <1>11, <2>1 DEF TipLeft, Still
  <2>3. ~scripted' /\ ~refused' /\ ~crossed' /\ ~vetoed' => TipWanted(n, {})
    BY <1>4, <1>5, <1>11, <2>1 DEF TipWanted, Still
  <2> QED  BY <1>1, <1>2, <1>4, <1>6, <1>7, <2>2, <2>3, TipStep DEF Tame
<1> QED  BY <1>9, <1>10, <1>11

LEMMA TipReady ==
    ASSUME TipInv, TT!T!Ready,
           UNCHANGED <<options, tip, events, scripted, vetoed, refused, crossed, disturbed>>
    PROVE  TipInv'
<1>1. transition = "undefined"
  BY DEF TT!T!Ready
<1>2. TipFits(tip)'
  BY <1>1 DEF TipInv, TipFits, Queue, TT!T!Supported
<1> QED  BY <1>2 DEF TipInv, TT!Options

LEMMA TipNext ==
    ASSUME TipInv, TT!Next
    PROVE  TipInv'
<1>1. TipFits(tip) /\ options \in TT!Options
  BY DEF TipInv
<1>2. tip.inState \subseteq TT!Triggers /\ options.trigger \subseteq TT!Triggers
  BY <1>1 DEF TipFits, TT!Options
<1>3. CASE UNCHANGED <<options, tip, events, TT!history>> /\ TT!T!Ready
  BY <1>3, TipReady DEF TT!history
<1>4. CASE TT!ToggleEnabled
  BY <1>4, ToggleEnabledDone DEF TT!ToggleEnabled
<1>5. ASSUME NEW prevented, NEW trigger \in TT!Triggers, TT!Comes(trigger, prevented)
      PROVE  TipInv'
  <2> DEFINE S == tip.inState \cup {trigger}
  <2>1. [tip EXCEPT !.inState = @ \cup {trigger}] = [tip EXCEPT !.inState = S]
    BY <1>1 DEF TipFits, TipFields
  <2>2. TT!Does(TT!Enter([tip EXCEPT !.inState = S], prevented), prevented) /\ UNCHANGED scripted
    BY <1>5, <2>1 DEF TT!Comes
  <2>3. S \subseteq TT!Triggers /\ S # {}
    BY <1>2
  <2> HIDE DEF S
  <2> QED  BY <2>2, <2>3, EnterDone
<1>6. ASSUME NEW prevented, NEW trigger \in TT!Triggers, TT!Goes(trigger, prevented)
      PROVE  TipInv'
  <2> DEFINE S == tip.inState \ {trigger}
  <2>1. [tip EXCEPT !.inState = @ \ {trigger}] = [tip EXCEPT !.inState = S]
    BY <1>1 DEF TipFits, TipFields
  <2>2. TT!Does(TT!Leave([tip EXCEPT !.inState = S], prevented), prevented) /\ UNCHANGED scripted
    BY <1>6, <2>1 DEF TT!Goes
  <2>3. S \subseteq tip.inState
    OBVIOUS
  <2> HIDE DEF S
  <2> QED  BY <2>2, <2>3, LeaveDone
<1>7. ASSUME NEW prevented, TT!Click(prevented)
      PROVE  TipInv'
  <2> DEFINE S == IF "click" \in tip.inState THEN tip.inState \ {"click"} ELSE tip.inState \cup {"click"}
             clicked == [tip EXCEPT !.inState = S]
  <2>1. [tip EXCEPT !.inState = IF "click" \in @ THEN @ \ {"click"} ELSE @ \cup {"click"}] = clicked
    BY <1>1 DEF TipFits, TipFields
  <2>2. /\ TT!Does(IF clicked.inState # {} THEN TT!Enter(clicked, prevented)
                   ELSE TT!Leave(clicked, prevented), prevented)
        /\ UNCHANGED scripted
    BY <1>7, <2>1 DEF TT!Click
  <2>3. "click" \in TT!Triggers
    BY DEF TT!Triggers
  <2>4. /\ S \subseteq TT!Triggers
        /\ S = {} => S \subseteq tip.inState
        /\ clicked.inState = S
    BY <1>1, <1>2, <2>3 DEF TipFits, TipFields
  <2> HIDE DEF S
  <2>5. CASE S # {}
    BY <2>2, <2>4, <2>5, EnterDone
  <2>6. CASE S = {}
    BY <2>2, <2>4, <2>6, LeaveDone
  <2> QED  BY <2>5, <2>6
<1>8. ASSUME NEW prevented, TT!CallShow(prevented) PROVE TipInv'
  BY <1>1, <1>8, ShowIs, ScriptDone DEF TT!CallShow
<1>9. ASSUME NEW prevented, TT!CallHide(prevented) PROVE TipInv'
  BY <1>1, <1>9, HideIsTame, ScriptDone DEF TT!CallHide
<1>10. ASSUME NEW prevented, TT!CallToggle(prevented) PROVE TipInv'
  BY <1>1, <1>10, ToggleIsTame, ScriptDone DEF TT!CallToggle
<1>11. ASSUME NEW prevented, TT!CallDestroy(prevented) PROVE TipInv'
  BY <1>11, DestroyDone DEF TT!CallDestroy
<1> QED  BY <1>3, <1>4, <1>5, <1>6, <1>7, <1>8, <1>9, <1>10, <1>11, TimeoutDone, EndDone DEF TT!Next

LEMMA TipStarts ==
    ASSUME TT!Init
    PROVE  TipInv
<1>1. TipFits(tip) /\ Queue(tip) = << >>
  BY NothingWaits DEF TT!Init, TT!Elements, TipFits, TipFields, Queue
<1> QED  BY <1>1, NothingWaits DEF TT!Init, TipInv, TipQuiet, TipLeft, TipWanted

OverlaysTipInv == overlay = "tooltip" => TipInv

LEMMA TipInductive == SpecOverlays => []OverlaysTipInv
<1>1. InitOverlays => OverlaysTipInv
  BY TipStarts DEF InitOverlays, OverlaysTipInv
<1>2. OverlaysTipInv /\ [NextOverlays]_overlaysVars => OverlaysTipInv'
  <2> SUFFICES ASSUME OverlaysTipInv, [NextOverlays]_overlaysVars, (overlay = "tooltip")'
               PROVE  TipInv'
    BY DEF OverlaysTipInv
  <2>1. CASE TT!Next /\ UNCHANGED <<overlay, modalVars>>
    BY <2>1, TipNext DEF OverlaysTipInv
  <2>2. CASE UNCHANGED overlaysVars
    <3>1. /\ TipInv
          /\ UNCHANGED <<transition, options, tip, scripted, vetoed, refused, crossed, disturbed>>
      BY <2>2 DEF overlaysVars, tooltipVars, OverlaysTipInv
    <3> QED  BY <3>1 DEF TipInv, TipFits, Queue, TT!T!Supported, TT!Options
  <2> QED  BY <2>1, <2>2 DEF NextOverlays
<1> QED  BY <1>1, <1>2, PTL DEF SpecOverlays

\* At rest, a tip that no one wants is out of the document, in whatever order the element
\* was entered and left, its timeouts fell due and its transitions ended, for any options.
THEOREM TipsAreNotLeft == SpecOverlays => []NoTipLeftBehind
<1>1. OverlaysTipInv => NoTipLeftBehind
  BY NothingWaits DEF OverlaysTipInv, NoTipLeftBehind, TT!NoTipLeftBehind, TT!AtRest, TT!Unwanted,
     TipInv, TipLeft, Queue
<1> QED  BY <1>1, TipInductive, PTL

\* At rest, a tip that is wanted is shown, unless a show came to nothing or the element was
\* entered while the tip was going.
THEOREM WantedTipsAreShown == SpecOverlays => []WantedIsShown
<1>1. OverlaysTipInv => WantedIsShown
  BY NothingWaits DEF OverlaysTipInv, WantedIsShown, TT!WantedIsShown, TT!AtRest,
     TipInv, TipWanted, Queue
<1> QED  BY <1>1, TipInductive, PTL

\* No callback meets a tooltip that has been destroyed, unless something happened to it
\* while its last transition was on.
THEOREM DestroyedTipsAreQuiet == SpecOverlays => []DestroyedIsQuiet
<1>1. OverlaysTipInv => DestroyedIsQuiet
  BY DEF OverlaysTipInv, DestroyedIsQuiet, TT!DestroyedIsQuiet, TipInv, TipQuiet
<1> QED  BY <1>1, TipInductive, PTL

=============================================================================
