------------------------------ MODULE Carousel ------------------------------
(***************************************************************************)
(* The carousel plugin of bootstrap.js (lines 309 to 536), as theme.html   *)
(* uses it: items of which one is shown, indicators, controls, a timer     *)
(* that moves on (data-ride), a pause while the pointer is over it.        *)
(*                                                                         *)
(* While an item slides out ("sliding") the controls and the timer are     *)
(* ignored, and a click on an indicator waits for the slid event.  That    *)
(* event is triggered by a timeout after the end of the transition, with   *)
(* sliding already false: another slide may have begun before it comes.    *)
(*                                                                         *)
(* pause also triggers the transition's end on the carousel itself when an *)
(* item is on its way; the handlers are bound to the items and ignore it.  *)
(***************************************************************************)
EXTENDS Integers, FiniteSets, Transition

CONSTANTS
    NumItems,      \* items, numbered from 0 as in the code
    Wrap,          \* the option wrap
    MaxClicks,     \* bound: clicks and keys of the user, calls of scripts
    MaxSlid        \* bound: slid events due at once

Items == 0 .. NumItems - 1

ASSUME NumItemsAssumption == NumItems \in Nat \ {0}
ASSUME WrapAssumption == Wrap \in BOOLEAN
ASSUME BoundsAssumption == MaxClicks \in Nat /\ MaxSlid \in Nat \ {0}
ASSUME ElementsAssumption == Elements = Items

VARIABLES
    loaded,       \* the window's load event has come
    instance,     \* "none", "rides", or "stays": made with interval false
    active,       \* items with the class "active"
    indicator,    \* the active indicator
    sliding,      \* this.sliding
    paused,       \* this.paused
    interval,     \* this.interval: the id of a timer, or 0
    timers,       \* timers of setInterval that are alive in the browser
    hovered,      \* the pointer is over the carousel
    queue,        \* what to() has bound to the next slid event, in order
    slidDue,      \* timeouts that will trigger slid
    clicks,       \* clicks, keys and calls so far
    \* History, read by a property only:
    stopped       \* a script has called pause, and nothing has set it off again

timerVars == <<paused, interval, timers, stopped>>
showVars == <<active, indicator, sliding, pending>>
carouselVars == <<transitionVars, loaded, instance, active, indicator, sliding, timerVars,
                  hovered, queue, slidDue, clicks>>

InitCarousel ==
    /\ InitTransition
    /\ loaded = FALSE
    /\ instance = "none"
    /\ active = {0}
    /\ indicator = 0
    /\ sliding = FALSE
    /\ paused = FALSE
    /\ interval = 0
    /\ timers = {}
    /\ hovered = FALSE
    /\ queue = << >>
    /\ slidDue = 0
    /\ clicks = 0
    /\ stopped = FALSE

-----------------------------------------------------------------------------
(* The timer.  What a method does to it depends on whether the instance    *)
(* was made with an interval (inst), so that it can be told of the one     *)
(* that the same click makes.                                              *)

TimerIds == 1 .. 2

\* Faulty Cycle: the old timer is not cleared.
CycleUncleared(inst, isPaused) ==
    IF inst = "rides" /\ ~isPaused
    THEN \E id \in TimerIds \ timers : interval' = id /\ timers' = timers \cup {id}
    ELSE UNCHANGED <<interval, timers>>

\* cycle: clear the timer and, unless paused, set a new one.
Cycle(inst, isPaused) ==
    LET others == timers \ {interval}
    IN  IF inst = "rides" /\ ~isPaused
        THEN \E id \in TimerIds \ others : interval' = id /\ timers' = others \cup {id}
        ELSE UNCHANGED interval /\ timers' = others

\* pause without what cycle would set again.
Pause ==
    /\ interval' = 0
    /\ timers' = timers \ {interval}

\* pause().cycle()
Restart(inst) == Cycle(inst, FALSE) /\ paused' = FALSE /\ stopped' = FALSE

-----------------------------------------------------------------------------
(* The slide.                                                              *)

Made(inst) == IF instance = "none" THEN inst ELSE instance
Shown == CHOOSE item \in active : TRUE

\* getItemForDirection: at either end, without wrap, the item itself.
GetItemForDirection(type) ==
    LET willWrap == (type = "prev" /\ Shown = 0) \/ (type = "next" /\ Shown = NumItems - 1)
        delta == IF type = "prev" THEN -1 ELSE 1
    IN  IF willWrap /\ ~Wrap THEN Shown ELSE (Shown + delta) % NumItems

Idle == UNCHANGED <<showVars, timerVars>>

\* What slide does to the items once no listener has prevented it.
MoveTo(item) ==
    /\ sliding' = Supported
    /\ indicator' = item
    /\ active' = IF Supported THEN active ELSE {item}
    /\ pending' = IF Supported THEN Bound(pending, Shown, item) ELSE pending

\* Faulty Slide: the timer that was stopped for the slide is not set again.
SlideStopsTimer(inst, item, isCycling) ==
    \/ Idle
    \/ /\ item \notin active
       /\ MoveTo(item)
       /\ IF isCycling THEN Pause /\ paused' = TRUE /\ UNCHANGED stopped ELSE UNCHANGED timerVars

\* slide: the item is active already, or a listener prevents the event, or it begins
\* (the timer, if there is one, is stopped and set anew).
Slide(inst, item, isCycling) ==
    \/ Idle
    \/ /\ item \notin active
       /\ MoveTo(item)
       /\ IF isCycling THEN Restart(inst) ELSE UNCHANGED timerVars

\* Faulty Move: a slide that is on is not heeded.
MoveAnyway(inst, type) == Slide(inst, GetItemForDirection(type), interval # 0)

\* next and prev.
Move(inst, type) ==
    IF sliding THEN Idle ELSE Slide(inst, GetItemForDirection(type), interval # 0)

\* to: wait for the slid event, or set the timer anew, or slide.
To(inst, pos) ==
    IF pos \notin Items THEN Idle /\ UNCHANGED queue
    ELSE IF sliding THEN Idle /\ queue' = Append(queue, pos)
    ELSE IF pos \in active THEN UNCHANGED <<showVars, queue>> /\ Restart(inst)
    ELSE Slide(inst, pos, interval # 0) /\ UNCHANGED queue

-----------------------------------------------------------------------------
(* What calls them.                                                        *)

Clicks ==
    /\ clicks < MaxClicks
    /\ clicks' = clicks + 1

\* A control (data-slide): clickHandler makes the instance if there is none.
ClickControl(type) ==
    /\ Clicks
    /\ instance' = Made("rides")
    /\ Move(instance', type)
    /\ UNCHANGED <<support, loaded, hovered, queue, slidDue>>

\* An indicator (data-slide-to): the instance it makes has no interval.
ClickIndicator(pos) ==
    /\ Clicks
    /\ instance' = Made("stays")
    /\ To(instance', pos)
    /\ UNCHANGED <<support, loaded, hovered, slidDue>>

\* The arrow keys.
Keydown(type) ==
    /\ instance # "none"
    /\ Clicks
    /\ Move(instance, type)
    /\ UNCHANGED <<support, loaded, instance, hovered, queue, slidDue>>

\* data-ride: make the instance, pause().cycle().
LoadCarousel ==
    /\ ~loaded
    /\ support # "undefined"
    /\ loaded' = TRUE
    /\ instance' = Made("rides")
    /\ Restart(instance')
    /\ UNCHANGED <<transitionVars, active, indicator, sliding, hovered, queue, slidDue, clicks>>

\* The constructor binds pause and cycle to the pointer; with an event they leave
\* paused as it is.
MouseEnter ==
    /\ ~hovered
    /\ hovered' = TRUE
    /\ IF instance = "none" THEN UNCHANGED <<interval, timers>> ELSE Pause
    /\ UNCHANGED <<transitionVars, loaded, instance, active, indicator, sliding, paused, stopped, queue, slidDue, clicks>>

MouseLeave ==
    /\ hovered
    /\ hovered' = FALSE
    /\ IF instance = "none" THEN UNCHANGED <<interval, timers>> ELSE Cycle(instance, paused)
    /\ UNCHANGED <<transitionVars, loaded, instance, active, indicator, sliding, paused, stopped, queue, slidDue, clicks>>

\* carousel('pause') and carousel('cycle'): Plugin calls the method, without an event.
CallPause ==
    /\ instance # "none"
    /\ Clicks
    /\ Pause
    /\ paused' = TRUE
    /\ stopped' = TRUE
    /\ UNCHANGED <<transitionVars, loaded, instance, active, indicator, sliding, hovered, queue, slidDue>>

CallCycle ==
    /\ instance # "none"
    /\ Clicks
    /\ Restart(instance)
    /\ UNCHANGED <<transitionVars, loaded, instance, active, indicator, sliding, hovered, queue, slidDue>>

\* A timer calls next.
Tick ==
    /\ timers # {}
    /\ ~sliding
    /\ Move(instance, "next")
    /\ UNCHANGED <<support, loaded, instance, hovered, queue, slidDue, clicks>>

\* Faulty SlideEnds: no slid event follows.
SlideEndsQuietly(item) ==
    /\ pending[item] # << >>
    /\ pending' = Ended(pending, item)
    /\ active' = (active \ {item}) \cup {pending[item][1]}
    /\ sliding' = FALSE
    /\ UNCHANGED <<support, loaded, instance, indicator, timerVars, hovered, queue, slidDue, clicks>>

\* The end of the transition of the item that slides out.
SlideEnds(item) ==
    /\ pending[item] # << >>
    /\ slidDue < MaxSlid
    /\ pending' = Ended(pending, item)
    /\ active' = (active \ {item}) \cup {pending[item][1]}
    /\ sliding' = FALSE
    /\ slidDue' = slidDue + 1
    /\ UNCHANGED <<support, loaded, instance, indicator, timerVars, hovered, queue, clicks>>

\* The slid event comes while another slide is on: each to() waits again.
SlidTooLate ==
    /\ slidDue > 0
    /\ sliding
    /\ slidDue' = slidDue - 1
    /\ UNCHANGED <<transitionVars, loaded, instance, active, indicator, sliding, timerVars, hovered, queue, clicks>>

\* The slid event runs the to() that wait, in order: the first k find their item
\* active or are prevented, the next one slides, and the others wait again.
Slid ==
    /\ slidDue > 0
    /\ ~sliding
    /\ slidDue' = slidDue - 1
    /\ \E k \in 0 .. Len(queue) :
        LET isCycling == interval # 0 \/ (instance = "rides" /\ \E i \in 1 .. k : queue[i] \in active)
        IN
        \/ /\ k = Len(queue)
           /\ queue' = << >>
           /\ UNCHANGED showVars
           /\ IF \E i \in 1 .. k : queue[i] \in active THEN Restart(instance) ELSE UNCHANGED timerVars
        \/ /\ k < Len(queue)
           /\ queue[k + 1] \notin active
           /\ MoveTo(queue[k + 1])
           /\ IF isCycling THEN Restart(instance) ELSE UNCHANGED timerVars
           /\ queue' = SubSeq(queue, k + 2, Len(queue))
    /\ UNCHANGED <<support, loaded, instance, hovered, clicks>>

NextCarousel ==
    \/ Ready /\ UNCHANGED <<loaded, instance, active, indicator, sliding, timerVars, hovered,
                            queue, slidDue, clicks>>
    \/ \E type \in {"next", "prev"} : ClickControl(type) \/ Keydown(type)
    \/ \E pos \in 0 .. NumItems : ClickIndicator(pos)
    \/ LoadCarousel \/ MouseEnter \/ MouseLeave \/ CallPause \/ CallCycle \/ Tick
    \/ \E item \in Items : SlideEnds(item)
    \/ SlidTooLate \/ Slid

SpecCarousel == InitCarousel /\ [][NextCarousel]_carouselVars

\* Transitions end and timeouts run.  The timeout of slid is due at once, the timer's
\* next tick an interval after the slide began: a slid event does not for ever find
\* that the timer was first.
FairSpecCarousel ==
    /\ SpecCarousel
    /\ \A item \in Items : WF_carouselVars(SlideEnds(item))
    /\ WF_carouselVars(SlidTooLate)
    /\ SF_carouselVars(Slid)

-----------------------------------------------------------------------------
(* Properties.                                                             *)

\* One item is shown, and the indicators point to it or to the one that is sliding in;
\* sliding says whether there is one.
ShowsOneItem ==
    /\ Cardinality(active) = 1
    /\ IF sliding
       THEN /\ pending[Shown] = <<indicator>> /\ indicator \notin active
            /\ \A item \in Items \ active : pending[item] = << >>
       ELSE /\ active = {indicator}
            /\ \A item \in Items : pending[item] = << >>

\* The carousel never has more than the timer it knows of, whatever the order of
\* clicks, pointer, load and slides: no timer is left behind that it cannot clear.
OneTimer == timers \subseteq {interval}

\* A carousel that is to ride goes on by itself after every slide and every pause,
\* when the pointer is elsewhere and no script has stopped it.  (One whose indicator was clicked before the
\* window was loaded does not ride, data-ride or not.)
KeepsRiding == loaded /\ instance = "rides" /\ ~hovered /\ ~stopped => interval \in timers

\* Every click on an indicator is answered: what waits for the slid event does not wait
\* for ever, although it may be put off by other slides.
IndicatorsAreServed == queue # << >> ~> queue = << >>

=============================================================================
