---------------------------- MODULE LockListeners ----------------------------
(***************************************************************************)
(* RunningLockCallbackManager: clients that listen to the screen running   *)
(* locks of a display, or of all displays.  A lock on all displays counts  *)
(* for each of them.  Locks change one at a time, under lockMutex_; the    *)
(* registrations do not take it, and listeners are told after the tables   *)
(* are unlocked.  Without POWER_MANAGER_LOCK_SUPPORT_MULTI_SCREEN every    *)
(* display is RUNNINGLOCK_DISPLAY_ID_ALL (NormalizeDisplayId).             *)
(***************************************************************************)
EXTENDS Naturals, FiniteSets

CONSTANTS
    Clients,   \* the listeners
    Displays,  \* the displays, RUNNINGLOCK_DISPLAY_ID_ALL left out
    MaxLocks,  \* bound: the screen locks that are held at once, per display
    MaxCalls   \* bound: the registrations that are handled at once

VARIABLES
    held,       \* the screen locks that are enabled, per display
    screenLockCount, \* screenLockCountPerDisplayId_
    callbacks,  \* callbacks_
    notifications, \* what HandleScreenLockNotify still has to tell
    callbacksCopy, \* the listeners still to be told of one of them
    calls,      \* the registrations that are handled
    watched,    \* clientDeathRecipientMap_
    alive,      \* external: the clients whose process lives
    obituaries, \* external: the calls of DeathRecipientManager::OnRemoteDied to come
    told,       \* external: what a listener was told last
    late,       \* history: the registrations that met a locked display and were told nothing yet
    overlap     \* history: a call overlapped an UnRegister of the client, or its death

vars == << held, screenLockCount, callbacks, notifications, callbacksCopy, calls, watched, alive,
           obituaries, told, late, overlap >>
locks == << held, screenLockCount, notifications, callbacksCopy >>
world == << alive, obituaries >>

All == "all"
Ids == Displays \cup { All }
Listeners == Clients \X Ids
States == { "LOCKED", "UNLOCKED" }

\* A lock of the display, or of all of them, is held.
IsLocked(d) == held[d] > 0 \/ held[All] > 0

TypeOK ==
    /\ { held, screenLockCount } \subseteq [ Ids -> 0..MaxLocks ]
    /\ { callbacks, callbacksCopy, late } \subseteq SUBSET Listeners
    /\ notifications \subseteq States \X Ids
    /\ calls \subseteq [ c : Clients, d : Ids, op : { "register", "unregister" }, pc : 1..3 ]
    /\ { watched, alive, obituaries } \subseteq SUBSET Clients
    /\ told \in [ Listeners -> States ] /\ overlap \in BOOLEAN

Init ==
    /\ held = [ d \in Ids |-> 0 ] /\ screenLockCount = held
    /\ callbacks = {} /\ notifications = {} /\ callbacksCopy = {}
    /\ calls = {} /\ watched = {} /\ alive = Clients /\ obituaries = {}
    /\ told = [ x \in Listeners |-> "UNLOCKED" ] /\ late = {} /\ overlap = FALSE

-------------------------------------------------------------------------------
(* Locks *)

\* A mutant of GetScreenLockCountInternal: a lock on all displays does not count for one.
GetScreenLockCountInternal_OwnOnly(count, d) == count[d]

GetScreenLockCountInternal(count, d) == count[d] + (IF d = All THEN 0 ELSE count[All])

UpdateScreenLockCount(active, d) ==
    [ screenLockCount EXCEPT ![d] = IF active THEN @ + 1 ELSE IF @ > 0 THEN @ - 1 ELSE 0 ]

\* The state is told when the display's count leaves 0 or comes back to it.
CollectNotifications(count, active, d) ==
    LET after == GetScreenLockCountInternal(count, d)
    IN  IF active /\ after = 1 THEN { << "LOCKED", d >> }
        ELSE IF ~active /\ after = 0 THEN { << "UNLOCKED", d >> }
        ELSE {}

GetRegisteredDisplayIds == { x[2] : x \in callbacks }

\* Lock enables a screen lock, UnLock disables it; both hold lockMutex_ until the listeners
\* have been told.  A lock of all displays concerns every display somebody listens to.
HandleScreenLockNotify(active, d) ==
    /\ notifications = {} /\ callbacksCopy = {}
    /\ IF active THEN held[d] < MaxLocks ELSE held[d] > 0
    /\ held' = [ held EXCEPT ![d] = IF active THEN @ + 1 ELSE @ - 1 ]
    /\ screenLockCount' = UpdateScreenLockCount(active, d)
    /\ LET others == IF d = All THEN GetRegisteredDisplayIds \ { All } ELSE {}
       IN  notifications' =
              UNION { CollectNotifications(screenLockCount', active, e) : e \in others \cup {d} }
    /\ UNCHANGED << callbacks, callbacksCopy, calls, watched, world, told, late, overlap >>

\* The notifications are told in the order of the displays, that of all of them last.
\* NotifyScreenRunningLockChanged copies the table for each ...
CopyCallbacks ==
    \E n \in notifications :
        /\ n[2] = All => notifications = {n}
        /\ callbacksCopy = {} /\ callbacksCopy' = { x \in callbacks : x[2] = n[2] }
        /\ notifications' = IF callbacksCopy' = {} THEN notifications \ {n} ELSE notifications
        /\ UNCHANGED << held, screenLockCount, callbacks, calls, watched, world, told, late, overlap >>

\* ... and tells the listeners of the display, one after the other.
OnAsyncScreenRunningLockChanged(x) ==
    \E n \in notifications :
        /\ n[2] = x[2]
        /\ told' = [ told EXCEPT ![x] = n[1] ]
        /\ late' = late \ {x}
        /\ callbacksCopy' = callbacksCopy \ {x}
        /\ notifications' = IF callbacksCopy' = {} THEN notifications \ {n} ELSE notifications
        /\ UNCHANGED << held, screenLockCount, callbacks, calls, watched, world, overlap >>

-------------------------------------------------------------------------------
(* Registrations *)

Call(c, op, d) ==
    /\ c \in alive /\ Cardinality(calls) < MaxCalls
    /\ calls' = calls \cup { [ c |-> c, d |-> d, op |-> op, pc |-> 1 ] }
    /\ overlap' = (overlap \/ \E x \in calls : x.c = c)
    /\ UNCHANGED << locks, callbacks, watched, world, told, late >>

Later(x) == (calls \ {x}) \cup { [ x EXCEPT !.pc = @ + 1 ] }

\* A listener that is registered for the display already is not registered again.
Register(x) ==
    /\ x \in calls /\ x.op = "register" /\ x.pc = 1 /\ calls' = Later(x)
    /\ callbacks' = callbacks \cup { << x.c, x.d >> }
    /\ IF << x.c, x.d >> \in callbacks THEN UNCHANGED << told, late >>
       ELSE /\ told' = [ told EXCEPT ![<< x.c, x.d >>] = "UNLOCKED" ]
            /\ late' = IF IsLocked(x.d)
                       THEN late \cup { << x.c, x.d >> } ELSE late \ { << x.c, x.d >> }
    /\ UNCHANGED << locks, watched, world, overlap >>

\* A client that is dead already sends no obituary any more.
AddDeathRecipient(x) ==
    /\ x \in calls /\ x.op = "register" /\ x.pc = 2 /\ calls' = calls \ {x}
    /\ watched' = watched \cup { x.c }
    /\ overlap' = (overlap \/ (x.c \notin alive /\ x.c \notin obituaries))
    /\ UNCHANGED << locks, callbacks, world, told, late >>

UnRegister(x) ==
    /\ x \in calls /\ x.op = "unregister" /\ x.pc = 1 /\ calls' = Later(x)
    /\ callbacks' = callbacks \ { << x.c, x.d >> }
    /\ UNCHANGED << locks, watched, world, told, late, overlap >>

\* The death recipient is given up only by a client that has no listener left.
HasCallbacks(x) ==
    /\ x \in calls /\ x.op = "unregister" /\ x.pc = 2
    /\ calls' = IF \E y \in callbacks : y[1] = x.c THEN calls \ {x} ELSE Later(x)
    /\ UNCHANGED << locks, callbacks, watched, world, told, late, overlap >>

RemoveDeathRecipientObj(x) ==
    /\ x \in calls /\ x.op = "unregister" /\ x.pc = 3 /\ calls' = calls \ {x}
    /\ watched' = watched \ { x.c }
    /\ UNCHANGED << locks, callbacks, world, told, late, overlap >>

\* External: a client dies, and its obituary is on its way.
ClientDies(c) ==
    /\ c \in alive /\ alive' = alive \ {c}
    /\ obituaries' = IF c \in watched THEN obituaries \cup {c} ELSE obituaries
    /\ overlap' = (overlap \/ \E x \in calls : x.c = c)
    /\ UNCHANGED << locks, callbacks, calls, watched, told, late >>

\* DeathRecipientManager::OnRemoteDied calls RemoveAll for a client it still watches.
RemoveAll(c) ==
    /\ c \in obituaries /\ obituaries' = obituaries \ {c}
    /\ IF c \in watched THEN watched' = watched \ {c} /\ callbacks' = { x \in callbacks : x[1] # c }
       ELSE UNCHANGED << watched, callbacks >>
    /\ UNCHANGED << locks, calls, alive, told, late, overlap >>

Next ==
    \/ \E d \in Ids : HandleScreenLockNotify(TRUE, d) \/ HandleScreenLockNotify(FALSE, d)
    \/ CopyCallbacks \/ \E x \in callbacksCopy : OnAsyncScreenRunningLockChanged(x)
    \/ \E c \in Clients, d \in Ids : Call(c, "register", d) \/ Call(c, "unregister", d)
    \/ \E x \in calls : \/ Register(x) \/ AddDeathRecipient(x)
                        \/ UnRegister(x) \/ HasCallbacks(x) \/ RemoveDeathRecipientObj(x)
    \/ \E c \in Clients : ClientDies(c) \/ RemoveAll(c)

Spec == Init /\ [][Next]_vars

-------------------------------------------------------------------------------
(* Whenever no notification is on its way, a listener was last told whether    *)
(* its display is locked, by a lock of the display or of all of them, however  *)
(* registrations fell between the count and the telling; and nothing is kept   *)
(* of a client that has died (HandleScreenLockNotify, RemoveAll).              *)
ListenersAreCurrent ==
    \A x \in callbacks :
        /\ x[1] \in alive /\ x \notin late /\ notifications = {} =>
              (told[x] = "LOCKED") = IsLocked(x[2])
        /\ ~overlap /\ (\A y \in calls : y.c # x[1]) => x[1] \in alive \cup obituaries

==============================================================================
