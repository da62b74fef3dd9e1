---------------------------- MODULE ClientTokens -----------------------------
(***************************************************************************)
(* What a client sets for as long as it lives: the blocks of screen-off    *)
(* (power key, lid, SuspendDevice), the filter of the proximity sensor     *)
(* and the forced time-out.  DeathRecipientManager and the death recipient *)
(* of SetForceTimingOut take them back when the token of the client dies.  *)
(***************************************************************************)
EXTENDS Naturals, FiniteSets

CONSTANTS
    Clients,
    BlockTypes   \* PowerStateMachine::ScreenOffBlockType

VARIABLES
    screenOffBlockMap,       \* for every type, the client of the block, if any
    proximityFiltered,       \* isProximityCloseEventFiltered_
    forceTimingOut,          \* forceTimingOut_
    clientDeathRecipientMap, \* for every client, the functions of its CBInfo; {}: not in the map
    thisInterfaceInvoker,    \* the last client of SetForceTimingOut
    call,        \* external: the call of a client that is being handled, and its next step
    alive,       \* external: the clients whose process lives
    buried,      \* external: the clients whose obituary has been sent
    watched,     \* external: per death recipient, the tokens it was added to
    obituaries,  \* external: per death recipient, the OnRemoteDied calls to come
    late, overlap   \* history: a call was handled after its client's obituary; another
                    \* client's SetForceTimingOut was registered within a call of it

vars == << screenOffBlockMap, proximityFiltered, forceTimingOut,
           clientDeathRecipientMap, thisInterfaceInvoker, call, alive, buried, watched,
           obituaries, late, overlap >>
external == << alive, buried, obituaries >>

Prox == "SetProxFilteringStrategy"
Funcs == BlockTypes \cup { Prox }
DeathRecipients == { "manager", "forceTimingOut" }
NoCall == [ op |-> "none", on |-> FALSE, pc |-> 0 ]
Calls == [ op : Funcs \cup { "forceTimingOut" }, on : BOOLEAN, pc : { 1, 2 } ] \cup { NoCall }

TypeOK ==
    /\ screenOffBlockMap \in [ BlockTypes -> { S \in SUBSET Clients : Cardinality(S) <= 1 } ]
    /\ { proximityFiltered, forceTimingOut, overlap } \subseteq BOOLEAN
    /\ clientDeathRecipientMap \in [ Clients -> SUBSET Funcs ]
    /\ thisInterfaceInvoker \subseteq Clients /\ call \in [ Clients -> Calls ]
    /\ { alive, buried, late } \subseteq SUBSET Clients
    /\ { watched, obituaries } \subseteq [ DeathRecipients -> SUBSET Clients ]

Init ==
    /\ screenOffBlockMap = [ t \in BlockTypes |-> {} ]
    /\ proximityFiltered = FALSE /\ forceTimingOut = FALSE
    /\ clientDeathRecipientMap = [ c \in Clients |-> {} ] /\ thisInterfaceInvoker = {}
    /\ call = [ c \in Clients |-> NoCall ]
    /\ alive = Clients /\ buried = {} /\ late = {} /\ overlap = FALSE
    /\ watched = [ d \in DeathRecipients |-> {} ] /\ obituaries = watched

-------------------------------------------------------------------------------
\* A call waits for a thread, and is handled in two steps.
Call(c, op, on) ==
    /\ c \in alive /\ call[c] = NoCall
    /\ call' = [ call EXCEPT ![c] = [ op |-> op, on |-> on, pc |-> 1 ] ]
    /\ UNCHANGED << screenOffBlockMap, proximityFiltered, forceTimingOut,
                    clientDeathRecipientMap, thisInterfaceInvoker, watched, external, late, overlap >>

AtStep(c, ops, n) ==
    /\ call[c].op \in ops /\ call[c].pc = n
    /\ call' = [ call EXCEPT ![c] = IF n = 1 THEN [ @ EXCEPT !.pc = 2 ] ELSE NoCall ]
    /\ late' = late \cup ({c} \cap buried)

\* A mutant of AddDeathRecipient: a client that is in the map keeps the functions it has.
AddDeathRecipient_FirstOnly(c, func) ==
    /\ clientDeathRecipientMap[c] = {} => watched' = [ watched EXCEPT !["manager"] = @ \cup ({c} \ buried) ]
    /\ clientDeathRecipientMap[c] # {} => UNCHANGED watched
    /\ clientDeathRecipientMap' = [ clientDeathRecipientMap EXCEPT ![c] = IF @ = {} THEN {func} ELSE @ ]

\* DeathRecipientManager::AddDeathRecipient, under callbacksMutex_.  The token of a client
\* that is known to be dead accepts no recipient, which goes unnoticed.
AddDeathRecipient(c, func) ==
    /\ IF clientDeathRecipientMap[c] = {}
       THEN watched' = [ watched EXCEPT !["manager"] = @ \cup ({c} \ buried) ]
       ELSE UNCHANGED watched
    /\ clientDeathRecipientMap' = [ clientDeathRecipientMap EXCEPT ![c] = @ \cup {func} ]

\* SetPowerKeyFilteringStrategy, SetLidFilteringStrategy, SetInterfaceCallFilteringStrategy:
\* the block is set, whoever had it, or removed; then the client is watched.  (The power
\* key's strategies for the long press belong to the shutdown dialog.)
UpdateScreenOffBlock(c) ==
    /\ AtStep(c, BlockTypes, 1)
    /\ screenOffBlockMap' = [ screenOffBlockMap EXCEPT ![call[c].op] = IF call[c].on THEN {c} ELSE {} ]
    /\ UNCHANGED << proximityFiltered, forceTimingOut, clientDeathRecipientMap,
                    thisInterfaceInvoker, watched, external, overlap >>

WatchBlock(c) ==
    /\ AtStep(c, BlockTypes, 2)
    /\ AddDeathRecipient(c, call[c].op)
    /\ UNCHANGED << screenOffBlockMap, proximityFiltered, forceTimingOut,
                    thisInterfaceInvoker, external, overlap >>

\* SetProxFilteringStrategy watches the client first.
WatchProximity(c) ==
    /\ AtStep(c, { Prox }, 1)
    /\ AddDeathRecipient(c, Prox)
    /\ UNCHANGED << screenOffBlockMap, proximityFiltered, forceTimingOut,
                    thisInterfaceInvoker, external, overlap >>

SetProxFilteringStrategy(c) ==
    /\ AtStep(c, { Prox }, 2)
    /\ proximityFiltered' = call[c].on
    /\ UNCHANGED << screenOffBlockMap, forceTimingOut, clientDeathRecipientMap,
                    thisInterfaceInvoker, watched, external, overlap >>

\* PowerMgrService::SetForceTimingOut moves its death recipient to the client, under
\* localMutex, and calls the state machine without it.
WatchForceTimingOut(c) ==
    /\ AtStep(c, { "forceTimingOut" }, 1)
    /\ IF thisInterfaceInvoker = {c} THEN UNCHANGED << thisInterfaceInvoker, watched >>
       ELSE /\ thisInterfaceInvoker' = {c}
            /\ watched' = [ watched EXCEPT !["forceTimingOut"] = {c} \ buried ]
    /\ overlap' = (overlap \/ \E d \in Clients \ {c} : call[d].op = "forceTimingOut" /\ call[d].pc = 2)
    /\ UNCHANGED << screenOffBlockMap, proximityFiltered, forceTimingOut,
                    clientDeathRecipientMap, external >>

SetForceTimingOut(c) ==
    /\ AtStep(c, { "forceTimingOut" }, 2)
    /\ forceTimingOut' = call[c].on
    /\ UNCHANGED << screenOffBlockMap, proximityFiltered, clientDeathRecipientMap,
                    thisInterfaceInvoker, watched, external, overlap >>

-------------------------------------------------------------------------------
\* External: a client dies, and its obituary is sent to the death recipients of its token.
Die(c) ==
    /\ c \in alive /\ alive' = alive \ {c}
    /\ UNCHANGED << screenOffBlockMap, proximityFiltered, forceTimingOut,
                    clientDeathRecipientMap, thisInterfaceInvoker, call, buried, watched,
                    obituaries, late, overlap >>

SendObituary(c) ==
    /\ c \notin alive \cup buried
    /\ buried' = buried \cup {c}
    /\ obituaries' = [ d \in DeathRecipients |-> obituaries[d] \cup ({c} \cap watched[d]) ]
    /\ watched' = [ d \in DeathRecipients |-> watched[d] \ {c} ]
    /\ UNCHANGED << screenOffBlockMap, proximityFiltered, forceTimingOut,
                    clientDeathRecipientMap, thisInterfaceInvoker, call, alive, late, overlap >>

\* DeathRecipientManager::OnRemoteDied and RemoveDeathRecipient run the functions of the
\* client, which take back what any client set.
RemoveDeathRecipient(c) ==
    /\ c \in obituaries["manager"]
    /\ obituaries' = [ obituaries EXCEPT !["manager"] = @ \ {c} ]
    /\ screenOffBlockMap' = [ t \in BlockTypes |->
           IF t \in clientDeathRecipientMap[c] THEN {} ELSE screenOffBlockMap[t] ]
    /\ proximityFiltered' = (proximityFiltered /\ Prox \notin clientDeathRecipientMap[c])
    /\ clientDeathRecipientMap' = [ clientDeathRecipientMap EXCEPT ![c] = {} ]
    /\ UNCHANGED << forceTimingOut, thisInterfaceInvoker, call, alive, buried,
                    watched, late, overlap >>

\* InvokerDeathRecipient::OnRemoteDied.
InvokerDied(c) ==
    /\ c \in obituaries["forceTimingOut"]
    /\ obituaries' = [ obituaries EXCEPT !["forceTimingOut"] = @ \ {c} ]
    /\ forceTimingOut' = FALSE
    /\ UNCHANGED << screenOffBlockMap, proximityFiltered, clientDeathRecipientMap,
                    thisInterfaceInvoker, call, alive, buried, watched, late, overlap >>

Next ==
    \E c \in Clients :
        \/ \E op \in Funcs \cup { "forceTimingOut" }, on \in BOOLEAN : Call(c, op, on)
        \/ UpdateScreenOffBlock(c) \/ WatchBlock(c)
        \/ WatchProximity(c) \/ SetProxFilteringStrategy(c)
        \/ WatchForceTimingOut(c) \/ SetForceTimingOut(c)
        \/ Die(c) \/ SendObituary(c) \/ RemoveDeathRecipient(c) \/ InvokerDied(c)

Spec == Init /\ [][Next]_vars

-------------------------------------------------------------------------------
(* A client that is gone, with its calls and its obituary handled, leaves no  *)
(* block; and when every client is gone, no filter and no forced time-out     *)
(* either: each of the death recipients has seen each of its clients die.     *)
(* Calls that were handled after the obituary of their client, and            *)
(* SetForceTimingOut calls that overlapped, may leave something.              *)
DeadClientsHoldNothing ==
    LET gone == { c \in buried \ late : call[c] = NoCall /\ \A d \in DeathRecipients : c \notin obituaries[d] }
    IN /\ \A t \in BlockTypes : screenOffBlockMap[t] \cap gone = {}
       /\ gone = Clients => ~proximityFiltered /\ (forceTimingOut => overlap)

==============================================================================
