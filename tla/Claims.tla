------------------------------- MODULE Claims --------------------------------
(***************************************************************************)
(* What LockScreenAfterTimingOut promises its callers: a parameter departs *)
(* from its default as long as some key of some client asks for that, and  *)
(* a client that leaves takes all that it asked for with it.               *)
(***************************************************************************)
CONSTANTS
    Clients,
    AppIds,    \* what a client asks on behalf of: itself or an application
    Params,  \* the boolean parameters
    Default  \* the parameters that are true by default

VARIABLES
    claim,   \* for every client and key, the parameters that depart from the default
    value    \* the parameters that are true

Xor(a, b) == (a \ b) \cup (b \ a)

Claimed == { p \in Params : \E c \in Clients, k \in AppIds : p \in claim[c][k] }

Init ==
    /\ claim = [ c \in Clients |-> [ k \in AppIds |-> {} ] ]
    /\ value = Default

Ask(c, k, v) ==
    /\ claim' = [ claim EXCEPT ![c] = [ @ EXCEPT ![k] = Xor(v, Default) ] ]
    /\ value' = Xor(Claimed', Default)

Leave(c) ==
    /\ claim' = [ claim EXCEPT ![c] = [ k \in AppIds |-> {} ] ]
    /\ value' = Xor(Claimed', Default)

Next ==
    \E c \in Clients : Leave(c) \/ \E k \in AppIds, v \in SUBSET Params : Ask(c, k, v)

Spec == Init /\ [][Next]_<< claim, value >>

==============================================================================
