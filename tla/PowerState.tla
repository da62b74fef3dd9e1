------------------------------ MODULE PowerState ------------------------------
(***************************************************************************)
(* The transition rules of the power state machine, as constant operators: *)
(* which state may follow which (forbidMap_, allowMapByReason_), how the   *)
(* power state is matched with the state of the display, which states a    *)
(* running lock blocks and which changes are notified.  The modules that   *)
(* model threads and timers all take their transitions from here.          *)
(*                                                                         *)
(* FREEZE, STAND_BY, DOZE, HIBERNATE and SHUTDOWN are not in States: no    *)
(* operation modelled so far asks for them.  The reasons are grouped by    *)
(* what the rules tell apart: "APPLICATION" stands for every reason that   *)
(* has no row in allowMapByReason_ and no sensor condition (application,   *)
(* hard key, lid, switch, system, ...).                                    *)
(***************************************************************************)

States == {"AWAKE", "DIM", "INACTIVE", "SLEEP"}

DisplayStates == {"ON", "DIM", "OFF"}

Reasons == {"REFRESH", "TIMEOUT", "TIMEOUT_NO_SCREEN_LOCK", "APPLICATION"}

IsTimeoutReason(reason) == reason \in {"TIMEOUT", "TIMEOUT_NO_SCREEN_LOCK"}

\* InitTransitMap: the pairs that no reason can override.
forbidMap_ ==
    { <<"AWAKE", "SLEEP">>, <<"INACTIVE", "DIM">>, <<"DIM", "SLEEP">>, <<"SLEEP", "DIM">> }

\* InitAllowMapByReason: a reason with a row may only make the moves of its row.
allowMapByReason_ ==
    [ REFRESH |-> { <<"DIM", "AWAKE">>, <<"AWAKE", "AWAKE">> },
      TIMEOUT |-> { <<"AWAKE", "DIM">>, <<"AWAKE", "INACTIVE">>,
                    <<"DIM", "INACTIVE">>, <<"INACTIVE", "SLEEP">> },
      TIMEOUT_NO_SCREEN_LOCK |-> { <<"DIM", "INACTIVE">>, <<"AWAKE", "INACTIVE">> } ]

CanTransitTo(from, to, reason) ==
    /\ <<from, to>> \notin forbidMap_
    /\ reason \in DOMAIN allowMapByReason_ => <<from, to>> \in allowMapByReason_[reason]

\* CheckState: DIM and AWAKE are entered again, other states are "already in state".
CheckState(current, target) == target \in {"DIM", "AWAKE"} \/ target # current

\* MatchState: the power state is corrected when the display disagrees with it,
\* except on the way into or out of SLEEP.
MatchState(current, target, disp) ==
    IF "SLEEP" \in {current, target} THEN current
    ELSE CASE disp = "OFF" /\ current = "AWAKE"     -> "INACTIVE"
           [] disp = "DIM" /\ current = "INACTIVE"  -> "DIM"
           [] disp = "ON"  /\ current = "INACTIVE"  -> "AWAKE"
           [] OTHER                                 -> current

\* lockMap_ with CheckRunningLock: a screen lock blocks INACTIVE and, through it, DIM.
BlockedByScreenLock(target) == target \in {"DIM", "INACTIVE"}

NeedNotify(current, target) ==
    /\ current # target
    /\ ~(current = "DIM" /\ target = "AWAKE")

ScreenOn(disp) == disp \in {"ON", "DIM"}

===============================================================================
