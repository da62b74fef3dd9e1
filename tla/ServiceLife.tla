------------------------------ MODULE ServiceLife ------------------------------
(***************************************************************************)
(* The life of the service on a product with two screens: it starts and    *)
(* stops, the brightness service and the display service come, crash and   *)
(* come back, and when the boot has completed the callback of              *)
(* RegisterBootCompletedCallback initialises what depends on them.  The    *)
(* display service must know whether the cover is open: it is told by the  *)
(* switch events, by the task that suspends the device, when it appears    *)
(* and when the switch has been subscribed to.                             *)
(***************************************************************************)
EXTENDS Naturals, Sequences

CONSTANTS
    MaxCover,    \* bound: movements of the cover
    MaxLives     \* bound: starts of the service, of the brightness and of the display service

Displays == { "brightness", "display" }    \* DISPLAY_MANAGER_SERVICE_ID, DISPLAY_MANAGER_SERVICE_SA_ID
Parts == { "input", "keys", "screens", "observers", "external" }

VARIABLES
    ready,        \* ready_
    listening,    \* the services whose coming and going we are told of
    notices,      \* external: OnAddSystemAbility and OnRemoveSystemAbility still to come, in order
    up,           \* external: the services that are there
    lives,        \* bound: starts so far
    bootDone,     \* external: bootevent.boot.completed
    needReInit, crashed,    \* isNeedReInit_, displayManagerServiceCrash_
    loops,        \* callbacks that wait for the boot to complete
    initMutex,    \* powerInitMutex_
    init,         \* where the boot-completed callback is
    sa,           \* where OnAddSystemAbility is
    saw,          \* what DoReportSwitchState has read of the cover, by thread
    live,         \* what is registered with others, besides the switch
    subscribed,   \* SubscribeSwitchEvent: our callback is registered
    cover, moves, \* external: the cover, and a bound on its movements
    events,       \* external: switch events that we have not seen
    switchOpen,   \* switchOpen_
    on,           \* the power state is AWAKE
    timer, task,  \* the task of the switch that has not started, and the one that runs
    told,         \* external: what the display service knows of the cover
    overtaken     \* history: the cover moved between a look at it and its report, or unseen

services == << ready, listening, notices, up, lives >>
boot == << bootDone, needReInit, crashed, loops, initMutex, init, sa, saw >>
switch == << subscribed, cover, moves, events, switchOpen, on, timer, task >>
vars == << services, boot, switch, live, told, overtaken >>

Cover == { "open", "closed" }
None == "none"

TypeOK ==
    /\ { ready, bootDone, needReInit, crashed, subscribed, switchOpen, on, overtaken } \subseteq BOOLEAN
    /\ listening \subseteq Displays /\ up \subseteq Displays /\ live \subseteq Parts
    /\ notices \in Seq({ "add", "remove" } \X Displays)
    /\ lives \in Nat /\ moves \in 0..MaxCover /\ loops \in Nat
    /\ initMutex \subseteq { "boot", "sa" }
    /\ init \in { "idle", "switch", "look", "report", "rest" } /\ sa \in { "idle", "look", "report" }
    /\ saw \in [ { "boot", "sa" } -> Cover ] /\ cover \in Cover /\ events \in Seq(Cover)
    /\ { timer, task } \subseteq { None, "wakeup", "suspend", "closed" } /\ told \in Cover \cup { None }

Init ==
    /\ ready = FALSE /\ listening = {} /\ notices = << >> /\ up = {} /\ lives = 0
    /\ bootDone = FALSE /\ needReInit = FALSE /\ crashed = FALSE /\ loops = 0
    /\ initMutex = {} /\ init = "idle" /\ sa = "idle" /\ saw = [ t \in { "boot", "sa" } |-> "open" ]
    /\ live = {} /\ subscribed = FALSE /\ cover \in Cover /\ moves = 0 /\ events = << >>
    /\ switchOpen = TRUE /\ on = TRUE /\ timer = None /\ task = None /\ told = None
    /\ overtaken = FALSE

Tell(c) == told' = IF "display" \in up THEN c ELSE told

-------------------------------------------------------------------------------
(* What is registered with others; a part that is there is not registered twice *)

InputMonitorInit(parts) == parts \cup { "input" }
InputMonitorCancel(parts) == parts \ { "input" }
KeyMonitorInit(parts) == parts \cup { "keys" }
KeyMonitorCancel(parts) == parts \ { "keys" }
RegisterExternalScreenListener(parts) == parts \cup { "screens" }
UnRegisterExternalScreenListener(parts) == parts \ { "screens" }
RegisterExternalCallback(parts) == parts \cup { "external" }
UnregisterExternalCallback(parts) == parts \ { "external" }

\* The screens' listener is registered anew, after the controllers it calls.
PowerExternalAbilityInit(parts) ==
    RegisterExternalCallback(
        RegisterExternalScreenListener(UnRegisterExternalScreenListener(parts)) \cup { "observers" })

-------------------------------------------------------------------------------
(* The service and the services it listens to *)

CountLife == lives < MaxLives /\ lives' = lives + 1
Listed(s) == IF s \in up THEN << << "add", s >> >> ELSE << >>

\* OnStart: listeners first (the manager tells them of what is there already), then Publish,
\* which may fail and leaves the listeners.
OnStart ==
    /\ ~ready /\ CountLife
    /\ listening' = Displays /\ notices' = notices \o Listed("brightness") \o Listed("display")
    /\ ready' \in BOOLEAN
    /\ UNCHANGED << up, boot, switch, live, told, overtaken >>

\* OnStop; the display service's listener and the callbacks that wait are left.
OnStop ==
    /\ ready /\ ready' = FALSE /\ listening' = listening \ { "brightness" }
    /\ live' = UnregisterExternalCallback(InputMonitorCancel(
                   UnRegisterExternalScreenListener(KeyMonitorCancel(live))) \ { "observers" })
    /\ subscribed' = FALSE /\ events' = << >>
    /\ UNCHANGED << notices, up, lives, boot, cover, moves, switchOpen, on, timer, task, told, overtaken >>

ServiceStarts(s) ==
    /\ s \notin up /\ CountLife /\ up' = up \cup {s}
    /\ notices' = IF s \in listening THEN Append(notices, << "add", s >>) ELSE notices
    /\ UNCHANGED << ready, listening, boot, switch, live, told, overtaken >>

ServiceCrashes(s) ==
    /\ s \in up /\ up' = up \ {s}
    /\ notices' = IF s \in listening THEN Append(notices, << "remove", s >>) ELSE notices
    /\ told' = IF s = "display" THEN None ELSE told
    /\ UNCHANGED << ready, listening, lives, boot, switch, live, overtaken >>

BootCompletes ==
    /\ up = Displays /\ ready /\ bootDone' = TRUE /\ ~bootDone
    /\ UNCHANGED << services, needReInit, crashed, loops, initMutex, init, sa, saw, switch, live, told, overtaken >>

-------------------------------------------------------------------------------
(* System abilities come and go; the notices are handled one after the other *)

RegisterBootCompletedCallback == needReInit' = TRUE /\ loops' = loops + 1

OnRemoveSystemAbility ==
    /\ notices # << >> /\ sa = "idle" /\ Head(notices)[1] = "remove"
    /\ notices' = Tail(notices)
    /\ IF Head(notices)[2] = "display" THEN initMutex = {} /\ crashed' = TRUE ELSE UNCHANGED crashed
    /\ UNCHANGED << ready, listening, up, lives, bootDone, needReInit, loops, initMutex, init, sa, saw, switch,
                    live, told, overtaken >>

\* OnAddSystemAbility of the brightness service.
OnAddBrightness ==
    /\ notices # << >> /\ sa = "idle" /\ Head(notices) = << "add", "brightness" >> /\ initMutex = {}
    /\ notices' = Tail(notices) /\ RegisterBootCompletedCallback
    /\ UNCHANGED << ready, listening, up, lives, bootDone, crashed, initMutex, init, sa, saw, switch, live, told, overtaken >>

\* Of the display service: it is told of the cover before anything else, under powerInitMutex_.
OnAddDisplay ==
    /\ notices # << >> /\ sa = "idle" /\ Head(notices) = << "add", "display" >> /\ initMutex = {}
    /\ notices' = Tail(notices) /\ initMutex' = { "sa" } /\ sa' = "look"
    /\ UNCHANGED << ready, listening, up, lives, bootDone, needReInit, crashed, loops, init, saw, switch, live,
                    told, overtaken >>

\* IsSwitchOpenByPath: what the HDI says of the cover, or switchOpen_ if it does not answer.
IsSwitchOpenByPath(t) ==
    \E c \in { cover, IF switchOpen THEN "open" ELSE "closed" } :
        saw' = [ saw EXCEPT ![t] = c ] /\ overtaken' = (overtaken \/ c # cover)

LookAtCover ==
    /\ sa = "look" /\ sa' = "report" /\ IsSwitchOpenByPath("sa")
    /\ UNCHANGED << services, bootDone, needReInit, crashed, loops, initMutex, init, switch, live, told >>

\* The end of DoReportSwitchState; after a crash everything is initialised again.
OnAddDisplayEnds ==
    /\ sa = "report" /\ sa' = "idle" /\ initMutex' = {} /\ Tell(saw["sa"])
    /\ IF crashed THEN RegisterBootCompletedCallback ELSE UNCHANGED << needReInit, loops >>
    /\ crashed' = FALSE
    /\ overtaken' = (overtaken \/ (saw["sa"] # cover /\ subscribed))
    /\ UNCHANGED << services, bootDone, init, saw, switch, live >>

-------------------------------------------------------------------------------
(* The boot-completed callback, under powerInitMutex_ *)

\* The parameter's watcher or LoopReadBootCompletedParameter calls it.
BootCompletedCallback ==
    /\ bootDone /\ loops > 0 /\ initMutex = {} /\ loops' = loops - 1
    /\ IF needReInit THEN /\ needReInit' = FALSE /\ initMutex' = { "boot" } /\ init' = "switch"
       ELSE UNCHANGED << needReInit, initMutex, init >>
    /\ UNCHANGED << services, bootDone, crashed, sa, saw, switch, live, told, overtaken >>

\* A mutant of SwitchSubscriberInit: the cover is not reported again once subscribed.
SwitchSubscriberInit_NoReport ==
    /\ init = "switch" /\ init' = "rest" /\ subscribed' = TRUE
    /\ UNCHANGED << services, bootDone, needReInit, crashed, loops, initMutex, sa, saw, cover, moves, events,
                    switchOpen, on, timer, task, live, told, overtaken >>

\* The input service may refuse.
SwitchSubscriberInit ==
    /\ init = "switch"
    /\ \E ok \in BOOLEAN : /\ subscribed' = (subscribed \/ ok) /\ init' = IF ok THEN "look" ELSE "rest"
    /\ UNCHANGED << services, bootDone, needReInit, crashed, loops, initMutex, sa, saw, cover, moves, events,
                    switchOpen, on, timer, task, live, told, overtaken >>

DoReportSwitchState ==
    /\ \/ init = "look" /\ init' = "report" /\ IsSwitchOpenByPath("boot") /\ UNCHANGED told
       \/ /\ init = "report" /\ init' = "rest" /\ Tell(saw["boot"]) /\ UNCHANGED saw
          /\ overtaken' = (overtaken \/ saw["boot"] # cover)
    /\ UNCHANGED << services, bootDone, needReInit, crashed, loops, initMutex, sa, switch, live >>

\* InputMonitorInit, the controllers and PowerExternalAbilityInit.
InitEnds ==
    /\ init = "rest" /\ init' = "idle" /\ initMutex' = {}
    /\ live' = PowerExternalAbilityInit(InputMonitorInit(KeyMonitorInit(live)))
    /\ UNCHANGED << services, bootDone, needReInit, crashed, loops, sa, saw, switch, told, overtaken >>

-------------------------------------------------------------------------------
(* The cover *)

Move ==
    /\ moves < MaxCover /\ moves' = moves + 1
    /\ cover' = IF cover = "open" THEN "closed" ELSE "open"
    /\ events' = IF subscribed THEN Append(events, cover') ELSE events
    /\ UNCHANGED << services, boot, subscribed, switchOpen, on, timer, task, live, told, overtaken >>

\* DoSwitchOpen tells the display service at once; a closed cover tells it from the task.
SwitchEvent ==
    /\ events # << >> /\ events' = Tail(events)
    /\ switchOpen' = (Head(events) = "open")
    /\ timer' = IF Head(events) = "open" THEN "wakeup" ELSE "suspend"
    /\ IF Head(events) = "open" THEN Tell("open") ELSE UNCHANGED told
    /\ UNCHANGED << services, boot, subscribed, cover, moves, on, task, live, overtaken >>

TimerFires ==
    /\ timer # None /\ task = None /\ task' = timer /\ timer' = None
    /\ UNCHANGED << services, boot, subscribed, cover, moves, events, switchOpen, on, live, told,
                    overtaken >>

WakeupTask ==
    /\ task = "wakeup" /\ task' = None /\ on' = TRUE
    /\ UNCHANGED << services, boot, subscribed, cover, moves, events, switchOpen, timer, live, told,
                    overtaken >>

\* ControlListenerInner: a screen that is off already is suspended and the display service not
\* told.  With ACTION_NONE the state stays and it is told before, otherwise after.
SuspendTask ==
    /\ task = "suspend"
    /\ IF on THEN task' = "closed" /\ on' \in BOOLEAN /\ UNCHANGED overtaken
       ELSE task' = None /\ UNCHANGED on /\ overtaken' = TRUE
    /\ UNCHANGED << services, boot, subscribed, cover, moves, events, switchOpen, timer, live, told >>

DoSwitchClose ==
    /\ task = "closed" /\ task' = None /\ Tell("closed")
    /\ overtaken' = (overtaken \/ (cover = "open" /\ events = << >>))
    /\ UNCHANGED << services, boot, subscribed, cover, moves, events, switchOpen, on, timer, live >>

\* Anything else that turns the screen on and off.
ScreenChanges ==
    /\ on' = ~on
    /\ UNCHANGED << services, boot, subscribed, cover, moves, events, switchOpen, timer, task, live, told, overtaken >>

Next ==
    \/ OnStart \/ OnStop \/ BootCompletes
    \/ \E s \in Displays : ServiceStarts(s) \/ ServiceCrashes(s)
    \/ OnRemoveSystemAbility \/ OnAddBrightness \/ OnAddDisplay \/ LookAtCover \/ OnAddDisplayEnds
    \/ BootCompletedCallback \/ SwitchSubscriberInit \/ DoReportSwitchState \/ InitEnds
    \/ Move \/ SwitchEvent \/ TimerFires \/ WakeupTask \/ SuspendTask \/ DoSwitchClose \/ ScreenChanges

Spec == Init /\ [][Next]_vars

-------------------------------------------------------------------------------
Settled == /\ ready /\ bootDone /\ up = Displays
           /\ notices = << >> /\ sa = "idle" /\ init = "idle" /\ loops = 0
           /\ events = << >> /\ timer = None /\ task = None

(* When it has settled with the switch subscribed to, the display service     *)
(* knows whether the cover is open, also if the cover moved before anybody    *)
(* listened or the display service crashed (DoReportSwitchState in            *)
(* SwitchSubscriberInit and OnAddSystemAbility), unless the cover overtook    *)
(* its own report or closed on a screen that was off.                         *)
DisplayKnowsCover == Settled /\ subscribed /\ ~overtaken => told = cover

==============================================================================
