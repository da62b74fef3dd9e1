---------------------------- MODULE MultiInvoker -----------------------------
(***************************************************************************)
(* MultiInvokerHelper: the boolean parameters of LockScreenAfterTimingOut, *)
(* which several clients set for themselves and for applications.  The     *)
(* helper counts, for every parameter, the keys of a client and the        *)
(* clients that depart from the default, and forgets a client that dies.   *)
(***************************************************************************)
EXTENDS Integers, FiniteSets

CONSTANTS
    Clients,
    AppIds,    \* the client's own pid and the applications it speaks for
    Params,  \* the boolean parameters
    Default  \* defaultParam_

ASSUME CallersAssumption == IsFiniteSet(Clients) /\ IsFiniteSet(AppIds)
ASSUME DefaultAssumption == Default \subseteq Params

VARIABLES
    invokers,    \* invokers_; a client that is not in the map has NoInvoker
    sum, result, \* sum_, result_
    value,       \* enabledTimingOutLockScreen_ and the others of the state machine
    call,        \* external: the call of a client that no thread has handled yet
    alive,       \* external: the clients whose process lives
    buried,      \* external: the clients whose obituary has been sent
    recipients,  \* external: the tokens that the helper is a death recipient of
    obituaries   \* external: OnRemoteDied calls that no thread has handled yet

vars == << invokers, sum, result, value, call, alive, buried, recipients, obituaries >>

NoInvoker == [ entries |-> [ k \in AppIds |-> {} ], sum |-> [ p \in Params |-> 0 ], result |-> {} ]
Invokers == [ entries : [ AppIds -> SUBSET Params ], sum : [ Params -> Nat ], result : SUBSET Params ]
Calls == [ key : AppIds, input : SUBSET Params ]

TypeOK ==
    /\ invokers \in [ Clients -> Invokers ]
    /\ sum \in [ Params -> Nat ] /\ result \in SUBSET Params /\ value \in SUBSET Params
    /\ call \in [ Clients -> { S \in SUBSET Calls : \A a, b \in S : a = b } ]
    /\ { alive, buried, recipients, obituaries } \subseteq SUBSET Clients

Init ==
    /\ invokers = [ c \in Clients |-> NoInvoker ]
    /\ sum = [ p \in Params |-> 0 ] /\ result = {} /\ value = Default
    /\ call = [ c \in Clients |-> {} ]
    /\ alive = Clients /\ buried = {} /\ recipients = {} /\ obituaries = {}

-------------------------------------------------------------------------------
Xor(a, b) == (a \ b) \cup (b \ a)

\* A mutant of Counted: the counters move whether or not the parameter changed.
Counted_Unchanged(counter, was, is) ==
    [ p \in Params |-> IF p \in is THEN counter[p] + 1 ELSE counter[p] - 1 ]

\* The loop of SetValue and of Set: a parameter that is turned on or off moves its counter,
\* and is on if the counter is not zero.
Counted(counter, was, is) ==
    [ p \in Params |-> IF p \in is \ was THEN counter[p] + 1
                       ELSE IF p \in was \ is THEN counter[p] - 1 ELSE counter[p] ]
NonZero(counter, old, changed) == { p \in Params : IF p \in changed THEN counter[p] # 0 ELSE p \in old }

SetValue(invoker, key, input) ==
    LET previous == invoker.entries[key]
        counter == Counted(invoker.sum, previous, input)
    IN [ entries |-> [ invoker.entries EXCEPT ![key] = input ],
         sum |-> counter,
         result |-> NonZero(counter, invoker.result, Xor(previous, input)) ]

\* External: a client calls LockScreenAfterTimingOut or ...WithAppid, which waits for a thread.
Call(c, k, v) ==
    /\ c \in alive /\ call[c] = {}
    /\ call' = [ call EXCEPT ![c] = { [ key |-> k, input |-> v ] } ]
    /\ UNCHANGED << invokers, sum, result, value, alive, buried, recipients, obituaries >>

\* The death recipient comes with the first parameter of a client and goes with the last
\* one.  It is not added to a token that is known to be dead, of which Set knows nothing.
Recipients(c, was, is, delta) ==
    IF was = {} /\ is # {} THEN recipients \cup ({c} \ buried)
    ELSE IF was # {} /\ is = {} THEN recipients \ {c} ELSE recipients

\* OnChange tells the state machine.
OnChange == value' = Xor(result', Default)

Set(c, key, input) ==
    LET delta == Xor(input, Default)
        previous == invokers[c].result
        invoker == SetValue(invokers[c], key, delta)
    IN
    /\ sum' = Counted(sum, previous, invoker.result)
    /\ result' = NonZero(sum', result, Xor(previous, invoker.result))
    /\ recipients' = Recipients(c, previous, invoker.result, delta)
    /\ invokers' = [ invokers EXCEPT ![c] = IF invoker.result = {} THEN NoInvoker ELSE invoker ]
    /\ OnChange

\* LockScreenAfterTimingOut in an IPC thread: Set holds mutex_.
LockScreenAfterTimingOut(c) ==
    \E a \in call[c] :
        /\ Set(c, a.key, a.input)
        /\ call' = [ call EXCEPT ![c] = {} ]
        /\ UNCHANGED << alive, buried, obituaries >>

\* External: the process of a client dies, and its obituary is sent.
Die(c) ==
    /\ c \in alive /\ alive' = alive \ {c}
    /\ UNCHANGED << invokers, sum, result, value, call, buried, recipients, obituaries >>

SendObituary(c) ==
    /\ c \notin alive \cup buried
    /\ buried' = buried \cup {c}
    /\ obituaries' = obituaries \cup ({c} \cap recipients)
    /\ UNCHANGED << invokers, sum, result, value, call, alive, recipients >>

\* A mutant of RemoveInvoker: every parameter's counter goes down.
RemoveInvoker_AllCounters(c) ==
    /\ invokers[c] # NoInvoker
    /\ sum' = [ p \in Params |-> IF sum[p] = 0 THEN 0 ELSE sum[p] - 1 ]
    /\ result' = { p \in Params : sum'[p] # 0 }
    /\ invokers' = [ invokers EXCEPT ![c] = NoInvoker ]
    /\ OnChange

RemoveInvoker(c) ==
    /\ invokers[c] # NoInvoker
    /\ sum' = Counted(sum, invokers[c].result, {})
    /\ result' = { p \in Params : sum'[p] # 0 }
    /\ invokers' = [ invokers EXCEPT ![c] = NoInvoker ]
    /\ OnChange

OnRemoteDied(c) ==
    /\ c \in obituaries /\ obituaries' = obituaries \ {c}
    /\ recipients' = recipients \ {c}
    /\ \/ RemoveInvoker(c)
       \/ invokers[c] = NoInvoker /\ UNCHANGED << invokers, sum, result, value >>
    /\ UNCHANGED << call, alive, buried >>

Next ==
    \E c \in Clients :
        \/ \E k \in AppIds, v \in SUBSET Params : Call(c, k, v)
        \/ LockScreenAfterTimingOut(c) \/ Die(c) \/ SendObituary(c) \/ OnRemoteDied(c)

Spec == Init /\ [][Next]_vars

-------------------------------------------------------------------------------
(* The counters implement the union: what the state machine uses departs from *)
(* the default exactly where some client still asks for it, however calls and *)
(* deaths follow one another (Set, RemoveInvoker, OnChange).                  *)
C == INSTANCE Claims WITH claim <- [ c \in Clients |-> invokers[c].entries ]
ImplementsClaims == C!Spec

==============================================================================
