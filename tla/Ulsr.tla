-------------------------------- MODULE Ulsr --------------------------------
(***************************************************************************)
(* Ultra-low standby: SetSuspendTag("ulsr") tells every registered         *)
(* IUlsrCallback OnSyncUlsr, in priority order and within 30 s, arms a     *)
(* timer and hands the tag to the HDI; the wake-up (or that timer) tells   *)
(* them OnAsyncWakeup.  UlsrCallbackHolder's callbackState_ pairs the two. *)
(* Compiled with POWER_MANAGER_ENABLE_SUSPEND_WITH_TAG.                    *)
(***************************************************************************)
EXTENDS Naturals, FiniteSets

CONSTANTS
    Clients,
    Tellers          \* threads that may run SyncUlsrNotifyInner; one that is late keeps running

VARIABLES
    priority,        \* the priority under which each client is registered, "none" if it is not
    stage,           \* callbackState_: DONE or ENTER
    ulsrMutex,       \* the owner of PowerMgrService::ulsrMutex_, as a set
    toTell,          \* the clients that each SyncUlsrNotifyInner has still to tell
    telling,         \* the threads that run SyncUlsrNotifyInner
    awaited,         \* the one of them that SyncUlsrNotify waits for, as a set
    timedOut,        \* history: a SyncUlsrNotify has given up after its 30 s
    told,            \* what each client heard last: none, ulsr or wakeup
    tag,             \* the suspend tag at the HDI
    timer,           \* CHECK_ULSR_SYNC_CALLBACK_TIMEOUT_MSG: off, armed or fired
    asleep,          \* the power state is SLEEP
    waitTaskStart,   \* g_ulsrResultWaitTaskStart
    resultTask,      \* WaitAndTriggerUlsrWakeup: none, wait, notify or end
    setter           \* where SetSuspendTag is

vars == << priority, stage, ulsrMutex, toTell, telling, awaited, timedOut, told, tag, timer, asleep,
           waitTaskStart, resultTask, setter >>

registry == << priority, told >>
sync == << stage, ulsrMutex, toTell, telling, awaited, timedOut >>
wakeup == << waitTaskStart, resultTask >>

Registered == { c \in Clients : priority[c] # "none" }

TypeOK ==
    /\ priority \in [ Clients -> { "none", "HIGH", "DEFAULT", "LOW" } ]
    /\ stage \in { "DONE", "ENTER" }
    /\ ulsrMutex \in { {}, {"setter"} }
    /\ toTell \in [ Tellers -> SUBSET Clients ]
    /\ telling \subseteq Tellers /\ awaited \subseteq telling
    /\ told \in [ Clients -> { "none", "ulsr", "wakeup" } ]
    /\ tag \in { "", "ulsr" }
    /\ timer \in { "off", "armed", "fired" }
    /\ resultTask \in { "none", "wait", "notify", "end" }
    /\ setter \in { "idle", "sync", "telling", "undo", "tag" }
    /\ { timedOut, asleep, waitTaskStart } \subseteq BOOLEAN

Init ==
    /\ priority = [ c \in Clients |-> "none" ]
    /\ stage = "DONE"
    /\ ulsrMutex = {}
    /\ toTell = [ n \in Tellers |-> {} ]
    /\ telling = {}
    /\ awaited = {}
    /\ timedOut = FALSE
    /\ told = [ c \in Clients |-> "none" ]
    /\ tag = ""
    /\ timer = "off"
    /\ asleep = FALSE
    /\ waitTaskStart = FALSE
    /\ resultTask = "none"
    /\ setter = "idle"

-------------------------------------------------------------------------------
(* Registration, under ulsrMutex_ and callbacksMutex_ *)

AddCallback(c) ==
    /\ ulsrMutex = {} /\ priority[c] = "none"
    /\ \E p \in { "HIGH", "DEFAULT", "LOW" } : priority' = [ priority EXCEPT ![c] = p ]
    /\ told' = [ told EXCEPT ![c] = "none" ]
    /\ UNCHANGED << sync, tag, timer, asleep, wakeup, setter >>

\* UnRegisterUlsrCallback, and OnRemoteDied, which takes callbacksMutex_ alone: a notify that has
\* not timed out holds that mutex too.
RemoveCallback(c) ==
    /\ ulsrMutex = {} /\ priority[c] # "none"
    /\ priority' = [ priority EXCEPT ![c] = "none" ]
    /\ told' = [ told EXCEPT ![c] = "none" ]
    /\ toTell' = [ n \in Tellers |-> toTell[n] \ {c} ]
    /\ UNCHANGED << stage, ulsrMutex, telling, awaited, timedOut, tag, timer, asleep, wakeup,
                    setter >>

-------------------------------------------------------------------------------
(* SetSuspendTag, one call at a time under suspendMutex_ *)

\* Only in SLEEP; the timer of an earlier ulsr is cancelled.
SetSuspendTag ==
    /\ setter = "idle" /\ asleep
    /\ timer' = IF timer = "armed" THEN "off" ELSE timer
    /\ setter' = "sync"
    /\ UNCHANGED << registry, sync, tag, asleep, wakeup >>

StartTelling ==
    \E n \in Tellers \ telling :
        /\ toTell' = [ toTell EXCEPT ![n] = Registered ]
        /\ telling' = telling \cup {n}
        /\ awaited' = {n}

\* callbackState_ goes from DONE to ENTER, or the call fails; the telling has a thread of its own.
SyncUlsrNotify ==
    /\ setter = "sync" /\ ulsrMutex = {}
    /\ \/ /\ stage = "DONE"
          /\ stage' = "ENTER"
          /\ ulsrMutex' = {"setter"}
          /\ StartTelling
          /\ setter' = "telling"
       \/ /\ stage = "ENTER"
          /\ setter' = "undo"
          /\ UNCHANGED << stage, ulsrMutex, toTell, telling, awaited >>
    /\ UNCHANGED << timedOut, registry, tag, timer, asleep, wakeup >>

Higher(c) == CASE priority[c] = "DEFAULT" -> {"HIGH"}
               [] priority[c] = "LOW" -> { "HIGH", "DEFAULT" }
               [] OTHER -> {}

\* A mutant of SyncUlsrNotifyInner: in no order.
SyncUlsrNotifyInner_AnyOrder(n) ==
    /\ n \in telling
    /\ \E c \in toTell[n] :
          /\ told' = [ told EXCEPT ![c] = "ulsr" ]
          /\ toTell' = [ toTell EXCEPT ![n] = @ \ {c} ]
    /\ UNCHANGED << priority, stage, ulsrMutex, telling, awaited, timedOut, tag, timer, asleep,
                    wakeup, setter >>

\* OnSyncUlsr, the high priority clients first.
SyncUlsrNotifyInner(n) ==
    /\ n \in telling
    /\ \E c \in toTell[n] :
          /\ \A d \in toTell[n] : priority[d] \notin Higher(c)
          /\ told' = [ told EXCEPT ![c] = "ulsr" ]
          /\ toTell' = [ toTell EXCEPT ![n] = @ \ {c} ]
    /\ UNCHANGED << priority, stage, ulsrMutex, telling, awaited, timedOut, tag, timer, asleep,
                    wakeup, setter >>

\* The callbacks are all told, or the thread finds that its own 30 s are used up.
SyncUlsrNotifyInnerEnd(n) ==
    /\ n \in telling
    /\ toTell[n] = {} \/ n \notin awaited
    /\ telling' = telling \ {n}
    /\ awaited' = awaited \ {n}
    /\ toTell' = [ toTell EXCEPT ![n] = {} ]
    /\ UNCHANGED << registry, stage, ulsrMutex, timedOut, tag, timer, asleep, wakeup, setter >>

\* fut.wait_for: the thread has ended, or the 30 s have passed and it goes on by itself.
SyncUlsrNotifyReturns ==
    /\ setter = "telling"
    /\ \/ awaited = {} /\ setter' = "tag" /\ UNCHANGED timedOut
       \/ awaited # {} /\ setter' = "undo" /\ timedOut' = TRUE
    /\ ulsrMutex' = {}
    /\ awaited' = {}
    /\ UNCHANGED << registry, stage, toTell, telling, tag, timer, asleep, wakeup >>

\* The timer is armed and the tag set at the HDI.
SetSuspendTagDone ==
    /\ setter = "tag"
    /\ timer' = IF timer = "fired" THEN timer ELSE "armed"
    /\ tag' = "ulsr"
    /\ setter' = "idle"
    /\ UNCHANGED << registry, sync, asleep, wakeup >>

-------------------------------------------------------------------------------
(* The wake-up *)

\* WakeupNotify: from ENTER to DONE, and OnAsyncWakeup to every registered client.
WakeupNotify ==
    /\ ulsrMutex = {}
    /\ \/ /\ stage = "ENTER"
          /\ stage' = "DONE"
          /\ told' = [ c \in Clients |-> IF c \in Registered THEN "wakeup" ELSE told[c] ]
       \/ /\ stage = "DONE"
          /\ UNCHANGED << stage, told >>
    /\ UNCHANGED << priority, ulsrMutex, toTell, telling, awaited, timedOut >>

\* The rollback of SetSuspendTag.
SetSuspendTagUndo ==
    /\ setter = "undo"
    /\ tag' = ""
    /\ WakeupNotify
    /\ setter' = "idle"
    /\ UNCHANGED << timer, asleep, wakeup >>

\* OnSuspendWithTag: the device does go down, and the timer is no longer wanted.
OnSuspendWithTag ==
    /\ tag = "ulsr" /\ asleep
    /\ timer' = IF timer = "armed" THEN "off" ELSE timer
    /\ UNCHANGED << registry, sync, tag, asleep, wakeup, setter >>

\* Behind OnWakeupWithTag and behind every wake-up of the device: the timer is cancelled, and one
\* task at a time waits for the result of the ulsr.
TriggerUlsrWakeupCallbackWithResult ==
    /\ tag = "ulsr" \/ asleep
    /\ asleep' = FALSE
    /\ tag' = ""
    /\ timer' = IF timer = "armed" THEN "off" ELSE timer
    /\ \/ /\ ~waitTaskStart /\ stage = "ENTER"
          /\ waitTaskStart' = TRUE
          /\ resultTask' = "wait"
       \/ /\ waitTaskStart \/ stage = "DONE"
          /\ UNCHANGED wakeup
    /\ UNCHANGED << registry, sync, setter >>

\* The result parameter is written, or 2 s have passed.
WaitAndTriggerUlsrWakeup ==
    /\ resultTask = "wait"
    /\ waitTaskStart' = TRUE
    /\ resultTask' = "notify"
    /\ UNCHANGED << registry, sync, tag, timer, asleep, setter >>

TriggerUlsrWakeupCallback ==
    /\ resultTask = "notify"
    /\ WakeupNotify
    /\ resultTask' = "end"
    /\ UNCHANGED << tag, timer, asleep, waitTaskStart, setter >>

WaitTaskEnd ==
    /\ resultTask = "end"
    /\ resultTask' = "none"
    /\ waitTaskStart' = FALSE
    /\ UNCHANGED << registry, sync, tag, timer, asleep, setter >>

UlsrTimerFires ==
    /\ timer = "armed"
    /\ timer' = "fired"
    /\ UNCHANGED << registry, sync, tag, asleep, wakeup, setter >>

OnUlsrTimerExpired ==
    /\ timer = "fired"
    /\ timer' = "off"
    /\ tag' = ""
    /\ WakeupNotify
    /\ UNCHANGED << asleep, wakeup, setter >>

FallAsleep ==
    /\ ~asleep /\ asleep' = TRUE
    /\ UNCHANGED << registry, sync, tag, timer, wakeup, setter >>

-------------------------------------------------------------------------------
Setter == SyncUlsrNotify \/ SyncUlsrNotifyReturns \/ SetSuspendTagDone \/ SetSuspendTagUndo
Teller == \E n \in Tellers : SyncUlsrNotifyInner(n) \/ SyncUlsrNotifyInnerEnd(n)
ResultTask == WaitAndTriggerUlsrWakeup \/ TriggerUlsrWakeupCallback \/ WaitTaskEnd
Timer == UlsrTimerFires \/ OnUlsrTimerExpired

Next ==
    \/ \E c \in Clients : AddCallback(c) \/ RemoveCallback(c)
    \/ SetSuspendTag \/ Setter \/ Teller \/ ResultTask \/ Timer
    \/ OnSuspendWithTag \/ TriggerUlsrWakeupCallbackWithResult \/ FallAsleep

Spec == Init /\ [][Next]_vars

-------------------------------------------------------------------------------
(* Properties *)

\* Nobody hears of the ulsr before a client of a higher priority.
HigherPriorityFirst ==
    \A n \in awaited : \A c, d \in Registered :
        ~timedOut /\ told[c] = "ulsr" /\ priority[d] \in Higher(c) => d \notin toTell[n]

==============================================================================
