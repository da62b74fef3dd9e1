-------------------------- MODULE RunningLockProofs ---------------------------
(***************************************************************************)
(* Proofs about RunningLock, for any finite set of tokens and processes.   *)
(* The counters of LockCounter pass only the first and the last lock of a  *)
(* type on, and two types nest in the counter of BACKGROUND_TASK, so the   *)
(* invariant has to say what each counter counts (Agree).  From it follow  *)
(* that no counter wraps, that every enabled lock is in force and that     *)
(* nothing is held in vain.  These have two hypotheses: no lock is proxied *)
(* (~AllowProxy), since UnLock of a proxied lock decreases its counter     *)
(* twice, and the HDI gives back what it is asked to (~UnholdMayFail).  It *)
(* may refuse to hold a lock.                                              *)
(*                                                                         *)
(* The types and the proxy's counts need neither (ProxyInv), the time-outs *)
(* only the second: each step of a loop over proxyMap_ keeps the count of  *)
(* the token it visits, and a lock that is proxied keeps its timer.        *)
(***************************************************************************)
EXTENDS RunningLock, FiniteSetTheorems, TLAPS

\* The states of a lock that no proxy has touched.
Unproxied == {"none", "DISABLE", "ENABLE"}

\* The managers in which no lock is proxied. The counters are any numbers here: that they never
\* wrap is a consequence of the invariant, not of their type.
PlainManagers ==
    [ lock    : [Tokens -> Unproxied],
      counter : [Types -> Nat],
      active  : [Marks -> BOOLEAN],
      screens : SUBSET Tokens,
      wks     : [Tokens -> [Procs -> WorkSourceStates]],
      cnt     : [Tokens -> {0}],
      timer   : SUBSET Tokens ]

\* n[type] locks of every type are enabled, and the counters c and the marks a say so:
\* BACKGROUND_TASK's counter has one more for each nested type in use, and a mark is there exactly
\* while its counter is not zero. COORDINATION may keep its mark when the HDI refused the lock.
Agree(c, a, n) ==
    /\ \A type \in Types \ {"TASK"} : c[type] = n[type]
    /\ c["TASK"] = n["TASK"]
                     + (IF n["USER_IDLE"] = 0 THEN 0 ELSE 1)
                     + (IF n["COORDINATION"] = 0 THEN 0 ELSE 1)
    /\ \A type \in {"SCREEN", "TASK", "PROXIMITY"} : a[type] <=> c[type] # 0
    /\ c["COORDINATION"] # 0 => a["COORDINATION"]

\* How many locks of every type are enabled.
Numbers(mm) == [ type \in Types |-> Cardinality(Enabled(mm, type)) ]

\* The counters and the marks of a manager agree with its locks.
Tallied(mm) == Agree(mm.counter, mm.active, Numbers(mm))

\* No counter is at the end of its range, so that neither an increase nor a decrease wraps.
Bounded(mm) == \A type \in Types : mm.counter[type] \in 0 .. CounterMod - 2

\* There are at most as many enabled locks as tokens.
LEMMA EnabledIsFinite ==
  ASSUME NEW mm, NEW type
  PROVE  /\ IsFiniteSet(Enabled(mm, type)) /\ Cardinality(Enabled(mm, type)) \in Nat
         /\ Cardinality(Enabled(mm, type)) <= Cardinality(Tokens) /\ Cardinality(Tokens) \in Nat
         /\ Cardinality(Enabled(mm, type)) = 0 <=> Enabled(mm, type) = {}
  <1>1. Enabled(mm, type) \in SUBSET Tokens
    BY DEF Enabled
  <1> QED BY <1>1, FS_Subset, FS_CardinalityType, FS_EmptySet, TokensAssumption

\* Counters that agree with the locks are bounded by the number of tokens. For BACKGROUND_TASK this
\* takes the three types that share its counter together.
LEMMA TalliedIsBounded ==
  ASSUME NEW mm \in PlainManagers, Tallied(mm)
  PROVE  Bounded(mm)
  <1> DEFINE A == Enabled(mm, "TASK")
             B == Enabled(mm, "USER_IDLE")
             C == Enabled(mm, "COORDINATION")
  <1>1. /\ IsFiniteSet(A) /\ IsFiniteSet(B) /\ IsFiniteSet(C) /\ A \cap B = {}
        /\ (A \cup B) \cap C = {}
        /\ (A \cup B) \cup C \in SUBSET Tokens
    BY EnabledIsFinite DEF Enabled
  <1>a. /\ Cardinality(A) \in Nat /\ Cardinality(B) \in Nat /\ Cardinality(C) \in Nat
        /\ Cardinality({}) = 0
    BY <1>1, FS_CardinalityType, FS_EmptySet
  <1> HIDE DEF A, B, C
  <1>2. Cardinality(A \cup B) = Cardinality(A) + Cardinality(B) /\ IsFiniteSet(A \cup B)
    <2>1. /\ IsFiniteSet(A \cup B)
          /\ Cardinality(A \cup B) = Cardinality(A) + Cardinality(B) - Cardinality(A \cap B)
      BY <1>1, FS_Union
    <2>2. Cardinality(A \cap B) = 0
      BY <1>1, <1>a, Zenon
    <2> QED BY <1>a, <2>1, <2>2
  <1>3. Cardinality((A \cup B) \cup C) = Cardinality(A) + Cardinality(B) + Cardinality(C)
    <2>1. Cardinality((A \cup B) \cup C)
            = Cardinality(A \cup B) + Cardinality(C) - Cardinality((A \cup B) \cap C)
      BY <1>1, <1>2, FS_Union
    <2>2. Cardinality((A \cup B) \cap C) = 0
      BY <1>1, <1>a, Zenon
    <2> QED BY <1>2, <1>a, <2>1, <2>2
  <1>4. Cardinality(A) + Cardinality(B) + Cardinality(C) <= Cardinality(Tokens)
    BY <1>1, <1>3, FS_Subset, TokensAssumption
  <1>5. /\ Numbers(mm)["TASK"] = Cardinality(A) /\ Numbers(mm)["USER_IDLE"] = Cardinality(B)
        /\ Numbers(mm)["COORDINATION"] = Cardinality(C)
    BY DEF Numbers, Types, A, B, C
  <1>6. mm.counter["TASK"] <= Cardinality(Tokens)
    BY <1>4, <1>5, <1>a, EnabledIsFinite DEF Tallied, Agree
  <1>7. \A type \in Types : mm.counter[type] <= Cardinality(Tokens) /\ mm.counter[type] \in Nat
    BY <1>6, EnabledIsFinite DEF Tallied, Agree, Numbers, PlainManagers
  <1>8. Cardinality(Tokens) \in Nat
    BY FS_CardinalityType, TokensAssumption
  <1> QED BY <1>7, <1>8, CounterAssumption DEF Bounded

\* A bounded counter is increased without wrapping.
LEMMA UpIsNext ==
  ASSUME NEW mm, Bounded(mm), NEW type \in Types
  PROVE  Up(mm, type) = mm.counter[type] + 1
  BY CounterAssumption DEF Up, Bounded

\* A counter that is not zero is decreased without wrapping.
LEMMA DownIsPrevious ==
  ASSUME NEW mm, Bounded(mm), NEW type \in Types, mm.counter[type] > 0
  PROVE  Down(mm, type) = mm.counter[type] - 1
  BY CounterAssumption DEF Down, Bounded

-------------------------------------------------------------------------------

\* The manager with other counters and other marks.
With(mm, c, a) == [ mm EXCEPT !.counter = c, !.active = a ]

\* It is the same in everything else.
LEMMA WithFields ==
  ASSUME NEW mm \in PlainManagers, NEW c \in [Types -> Nat], NEW a \in [Marks -> BOOLEAN]
  PROVE  /\ With(mm, c, a) \in PlainManagers
         /\ With(mm, c, a).counter = c /\ With(mm, c, a).active = a
         /\ With(mm, c, a).lock = mm.lock /\ With(mm, c, a).screens = mm.screens
         /\ With(mm, c, a).wks = mm.wks /\ With(mm, c, a).cnt = mm.cnt
         /\ With(mm, c, a).timer = mm.timer
  BY DEF With, PlainManagers

\* The increase of BACKGROUND_TASK's counter, unless the HDI refuses the first lock.
LEMMA TaskUp ==
  ASSUME NEW mm \in PlainManagers, Bounded(mm), mm.active["TASK"] <=> mm.counter["TASK"] # 0,
         NEW ok \in BOOLEAN, mm.counter["TASK"] = 0 => ok
  PROVE  IncreaseTask(mm, ok) = With(mm, [ mm.counter EXCEPT !["TASK"] = @ + 1 ],
                                         [ mm.active EXCEPT !["TASK"] = TRUE ])
  <1>1. Up(mm, "TASK") = mm.counter["TASK"] + 1 /\ mm.counter["TASK"] \in Nat
    BY UpIsNext DEF Types, PlainManagers
  <1>2. IncreaseTask(mm, ok) = [ mm EXCEPT !.counter["TASK"] = Up(mm, "TASK"),
                                          !.active["TASK"] = @ \/ Up(mm, "TASK") = 1 ]
    BY <1>1 DEF IncreaseTask
  <1>3. (mm.active["TASK"] \/ Up(mm, "TASK") = 1) = TRUE
    BY <1>1
  <1>4. IncreaseTask(mm, ok) = [ mm EXCEPT !.counter["TASK"] = Up(mm, "TASK"), !.active["TASK"] = TRUE ]
    BY <1>2, <1>3
  <1> QED BY <1>1, <1>4 DEF With, PlainManagers

\* Its decrease, when the HDI complies.
LEMMA TaskDown ==
  ASSUME NEW mm \in PlainManagers, Bounded(mm), mm.active["TASK"], mm.counter["TASK"] > 0
  PROVE  DecreaseTask(mm, TRUE) =
            With(mm, [ mm.counter EXCEPT !["TASK"] = @ - 1 ],
                     [ mm.active EXCEPT !["TASK"] = (IF mm.counter["TASK"] = 1 THEN FALSE ELSE TRUE) ])
  <1>1. Down(mm, "TASK") = mm.counter["TASK"] - 1 /\ mm.counter["TASK"] \in Nat
    BY DownIsPrevious DEF Types, PlainManagers
  <1>2. DecreaseTask(mm, TRUE) = [ mm EXCEPT !.counter["TASK"] = Down(mm, "TASK"),
                                            !.active["TASK"] = @ /\ Down(mm, "TASK") # 0 ]
    BY <1>1 DEF DecreaseTask
  <1>3. (mm.active["TASK"] /\ Down(mm, "TASK") # 0) = (IF mm.counter["TASK"] = 1 THEN FALSE ELSE TRUE)
    <2>1. Down(mm, "TASK") # 0 <=> mm.counter["TASK"] # 1
      BY <1>1
    <2> QED BY <2>1, Zenon
  <1>4. DecreaseTask(mm, TRUE) =
           [ mm EXCEPT !.counter["TASK"] = Down(mm, "TASK"),
                       !.active["TASK"] = (IF mm.counter["TASK"] = 1 THEN FALSE ELSE TRUE) ]
    BY <1>2, <1>3
  <1> QED BY <1>1, <1>4 DEF With, PlainManagers

\* LockCounter::Increase: counters and marks that agree with n agree afterwards with n and one more
\* lock of the type, or with n itself when the HDI refused; for the nested types both counters are
\* right, whatever failed.
LEMMA IncreaseAgrees ==
  ASSUME NEW mm \in PlainManagers, Bounded(mm), NEW type \in Types, NEW ok \in BOOLEAN,
         NEW n \in [Types -> Nat], Agree(mm.counter, mm.active, n)
  PROVE  \E c \in [Types -> Nat], a \in [Marks -> BOOLEAN] :
            /\ Increase(mm, type, ok) = With(mm, c, a)
            /\ Agree(c, a, IF ReachesHdiUp(mm, type) /\ ~ok THEN n ELSE [ n EXCEPT ![type] = @ + 1 ])
  <1> DEFINE c0 == mm.counter
             a0 == mm.active
  <1>1. c0 \in [Types -> Nat] /\ a0 \in [Marks -> BOOLEAN] /\ mm = With(mm, c0, a0)
    BY DEF PlainManagers, With
  <1>2. \A ty \in Types : Up(mm, ty) = c0[ty] + 1
    BY UpIsNext
  <1>3. a0["TASK"] <=> c0["TASK"] # 0
    BY DEF Agree
  <1>4. CASE type = "TASK"
    <2>1. CASE c0["TASK"] = 0 /\ ~ok
      <3>1. Increase(mm, type, ok) = mm /\ ReachesHdiUp(mm, type)
        BY <1>1, <1>2, <1>4, <2>1 DEF Increase, IncreaseTask, ReachesHdiUp, Types, Nested
      <3> QED BY <1>1, <2>1, <3>1
    <2>2. CASE ~(c0["TASK"] = 0 /\ ~ok)
      <3> DEFINE c == [ c0 EXCEPT !["TASK"] = @ + 1 ]
                 a == [ a0 EXCEPT !["TASK"] = TRUE ]
      <3>1. Increase(mm, type, ok) = With(mm, c, a) /\ ~(ReachesHdiUp(mm, type) /\ ~ok)
        BY <1>1, <1>2, <1>3, <1>4, <2>2, TaskUp DEF Increase, ReachesHdiUp, Types, Nested
      <3>2. /\ c \in [Types -> Nat] /\ a \in [Marks -> BOOLEAN]
            /\ Agree(c, a, [ n EXCEPT ![type] = @ + 1 ])
        BY <1>1, <1>4 DEF Agree, Types, Marks
      <3> QED BY <3>1, <3>2
    <2> QED BY <2>1, <2>2
  <1>5. CASE type \in {"SCREEN", "PROXIMITY"}
    <2> DEFINE c == [ c0 EXCEPT ![type] = @ + 1 ]
               a == [ a0 EXCEPT ![type] = TRUE ]
    <2>1. ~(ReachesHdiUp(mm, type) /\ ~ok)
      BY <1>5 DEF ReachesHdiUp, Nested
    <2>2. Increase(mm, type, ok) = [ mm EXCEPT !.counter[type] = Up(mm, type),
              !.active = IF Up(mm, type) = 1 THEN [ @ EXCEPT ![type] = TRUE ] ELSE @ ]
      BY <1>5, <2>1, Zenon DEF Increase, Nested, Marks
    <2>3. (IF Up(mm, type) = 1 THEN [ a0 EXCEPT ![type] = TRUE ] ELSE a0) = a
      <3>1. CASE c0[type] = 0
        BY <1>2, <3>1 DEF Types
      <3>2. CASE c0[type] # 0
        <4>1. a0[type] = TRUE
          BY <1>1, <1>5, <3>2 DEF Agree, Marks
        <4>2. a = a0
          BY <1>1, <4>1
        <4> QED BY <4>2
      <3> QED BY <3>1, <3>2
    <2>4. Increase(mm, type, ok) = With(mm, c, a)
      BY <1>1, <1>2, <2>2, <2>3 DEF With, PlainManagers
    <2>5. /\ c \in [Types -> Nat] /\ a \in [Marks -> BOOLEAN]
          /\ Agree(c, a, [ n EXCEPT ![type] = @ + 1 ])
      BY <1>1, <1>5 DEF Agree, Types, Marks
    <2> QED BY <2>1, <2>4, <2>5
  <1>6. CASE type \in Nested
    <2> DEFINE first == Up(mm, type) = 1
               fails == ReachesHdiUp(mm, type) /\ ~ok
               acted == IF first THEN IncreaseTask(mm, ok) ELSE mm
    <2>0. first <=> c0[type] = 0
      BY <1>1, <1>2
    <2>1. fails <=> first /\ c0["TASK"] = 0 /\ ~ok
      BY <1>1, <1>2, <1>6 DEF ReachesHdiUp, Types, Nested
    <2>2. Increase(mm, type, ok) = [ acted EXCEPT !.counter[type] = IF fails THEN @ ELSE Up(mm, type),
              !.active = IF first /\ type \in Marks THEN [ @ EXCEPT ![type] = TRUE ] ELSE @ ]
      <3>1. type # "TASK"
        BY <1>6 DEF Nested
      <3> QED BY <1>6, <3>1, Zenon DEF Increase
    <2>3. CASE fails
      <3> DEFINE a == IF type \in Marks THEN [ a0 EXCEPT ![type] = TRUE ] ELSE a0
      <3>1. acted = mm
        BY <1>1, <1>2, <2>1, <2>3 DEF IncreaseTask, Types
      <3>2. Increase(mm, type, ok) = With(mm, c0, a)
        BY <1>1, <2>1, <2>2, <2>3, <3>1 DEF With, PlainManagers
      <3>3. a \in [Marks -> BOOLEAN] /\ Agree(c0, a, n)
        BY <1>1, <1>6 DEF Agree, Types, Marks, Nested
      <3> QED BY <1>1, <2>3, <3>2, <3>3
    <2>4. CASE ~fails /\ first
      <3> DEFINE c1 == [ c0 EXCEPT !["TASK"] = @ + 1 ]
                 a1 == [ a0 EXCEPT !["TASK"] = TRUE ]
                 c == [ c1 EXCEPT ![type] = @ + 1 ]
                 a == IF type \in Marks THEN [ a1 EXCEPT ![type] = TRUE ] ELSE a1
      <3>1. acted = With(mm, c1, a1)
        BY <1>3, <2>1, <2>4, TaskUp
      <3>2. Increase(mm, type, ok) = [ With(mm, c1, a1) EXCEPT !.counter[type] = Up(mm, type),
              !.active = IF type \in Marks THEN [ @ EXCEPT ![type] = TRUE ] ELSE @ ]
        BY <2>2, <2>4, <3>1
      <3>3. Increase(mm, type, ok) = With(mm, c, a)
        BY <1>1, <1>2, <1>6, <3>2 DEF With, PlainManagers, Nested, Types
      <3>4. c \in [Types -> Nat] /\ a \in [Marks -> BOOLEAN]
        <4>1. c1 \in [Types -> Nat] /\ a1 \in [Marks -> BOOLEAN]
          BY <1>1 DEF Types, Marks
        <4> HIDE DEF c1, a1
        <4> QED BY <4>1
      <3>5. Agree(c, a, [ n EXCEPT ![type] = @ + 1 ])
        <4>1. CASE type = "USER_IDLE"
          BY <1>1, <2>0, <2>4, <4>1 DEF Agree, Types, Marks
        <4>2. CASE type = "COORDINATION"
          BY <1>1, <2>0, <2>4, <4>2 DEF Agree, Types, Marks
        <4> QED BY <1>6, <4>1, <4>2 DEF Nested
      <3> QED BY <2>4, <3>3, <3>4, <3>5
    <2>5. CASE ~first
      <3> DEFINE c == [ c0 EXCEPT ![type] = @ + 1 ]
      <3>1. Increase(mm, type, ok) = With(mm, c, a0)
        BY <1>1, <1>2, <2>1, <2>2, <2>5 DEF With, PlainManagers
      <3>2. c \in [Types -> Nat] /\ Agree(c, a0, [ n EXCEPT ![type] = @ + 1 ])
        BY <1>1, <1>6, <2>0, <2>5 DEF Agree, Types, Marks, Nested
      <3> QED BY <1>1, <2>1, <2>5, <3>1, <3>2
    <2> QED BY <2>3, <2>4, <2>5
  <1> QED BY <1>4, <1>5, <1>6 DEF Types, Nested

\* LockCounter::Decrease: they agree afterwards with one lock less of the type.
LEMMA DecreaseAgrees ==
  ASSUME NEW mm \in PlainManagers, Bounded(mm), NEW type \in Types,
         NEW n \in [Types -> Nat], Agree(mm.counter, mm.active, n), n[type] > 0
  PROVE  \E c \in [Types -> Nat], a \in [Marks -> BOOLEAN] :
            /\ Decrease(mm, type, TRUE) = With(mm, c, a)
            /\ Agree(c, a, [ n EXCEPT ![type] = @ - 1 ])
  <1> DEFINE c0 == mm.counter
             a0 == mm.active
  <1>1. c0 \in [Types -> Nat] /\ a0 \in [Marks -> BOOLEAN] /\ mm = With(mm, c0, a0)
    BY DEF PlainManagers, With
  <1>2. c0[type] > 0 /\ Down(mm, type) = c0[type] - 1
    <2>1. c0[type] > 0
      BY <1>1 DEF Agree, Types
    <2> QED BY <2>1, DownIsPrevious
  <1>3. CASE type = "TASK"
    <2> DEFINE c == [ c0 EXCEPT !["TASK"] = @ - 1 ]
               a == [ a0 EXCEPT !["TASK"] = (IF c0["TASK"] = 1 THEN FALSE ELSE TRUE) ]
    <2>1. a0["TASK"]
      BY <1>2, <1>3 DEF Agree
    <2>2. Decrease(mm, type, TRUE) = With(mm, c, a)
      BY <1>2, <1>3, <2>1, TaskDown DEF Decrease
    <2>3. /\ c \in [Types -> Nat] /\ a \in [Marks -> BOOLEAN]
          /\ Agree(c, a, [ n EXCEPT ![type] = @ - 1 ])
      BY <1>1, <1>2, <1>3 DEF Agree, Types, Marks
    <2> QED BY <2>2, <2>3
  <1>4. CASE type \in {"SCREEN", "PROXIMITY"}
    <2> DEFINE c == [ c0 EXCEPT ![type] = @ - 1 ]
               a == IF Down(mm, type) = 0 THEN [ a0 EXCEPT ![type] = FALSE ] ELSE a0
    <2>1. Decrease(mm, type, TRUE) = [ mm EXCEPT !.counter[type] = Down(mm, type), !.active = a ]
      BY <1>4, Zenon DEF Decrease, Nested, Marks
    <2>2. Decrease(mm, type, TRUE) = With(mm, c, a)
      BY <1>1, <1>2, <2>1 DEF With, PlainManagers
    <2>3. /\ c \in [Types -> Nat] /\ a \in [Marks -> BOOLEAN]
          /\ Agree(c, a, [ n EXCEPT ![type] = @ - 1 ])
      BY <1>1, <1>2, <1>4 DEF Agree, Types, Marks
    <2> QED BY <2>2, <2>3
  <1>5. CASE type \in Nested
    <2> DEFINE last == Down(mm, type) = 0
               acted == IF last THEN DecreaseTask(mm, TRUE) ELSE mm
    <2>1. Decrease(mm, type, TRUE) = [ acted EXCEPT !.counter[type] = Down(mm, type),
              !.active = IF last /\ type \in Marks THEN [ @ EXCEPT ![type] = FALSE ] ELSE @ ]
      <3>1. type # "TASK"
        BY <1>5 DEF Nested
      <3> QED BY <1>5, <3>1, Zenon DEF Decrease
    <2>2. CASE last
      <3> DEFINE c1 == [ c0 EXCEPT !["TASK"] = @ - 1 ]
                 a1 == [ a0 EXCEPT !["TASK"] = (IF c0["TASK"] = 1 THEN FALSE ELSE TRUE) ]
                 c == [ c1 EXCEPT ![type] = 0 ]
                 a == IF type \in Marks THEN [ a1 EXCEPT ![type] = FALSE ] ELSE a1
      <3>0. c0["TASK"] > 0 /\ a0["TASK"]
        BY <1>1, <1>2, <1>5 DEF Agree, Nested, Types
      <3>1. acted = With(mm, c1, a1)
        BY <2>2, <3>0, TaskDown
      <3>2. Decrease(mm, type, TRUE) = [ With(mm, c1, a1) EXCEPT !.counter[type] = 0,
              !.active = IF type \in Marks THEN [ @ EXCEPT ![type] = FALSE ] ELSE @ ]
        BY <2>1, <2>2, <3>1
      <3>3. Decrease(mm, type, TRUE) = With(mm, c, a)
        BY <1>1, <1>2, <1>5, <3>2 DEF With, PlainManagers, Nested, Types
      <3>4. c \in [Types -> Nat] /\ a \in [Marks -> BOOLEAN]
        <4>1. c1 \in [Types -> Nat] /\ a1 \in [Marks -> BOOLEAN]
          BY <1>1, <3>0 DEF Types, Marks
        <4> HIDE DEF c1, a1
        <4> QED BY <4>1
      <3>5. Agree(c, a, [ n EXCEPT ![type] = @ - 1 ])
        <4>1. CASE type = "USER_IDLE"
          BY <1>1, <1>2, <2>2, <4>1 DEF Agree, Types, Marks
        <4>2. CASE type = "COORDINATION"
          BY <1>1, <1>2, <2>2, <4>2 DEF Agree, Types, Marks
        <4> QED BY <1>5, <4>1, <4>2 DEF Nested
      <3> QED BY <3>3, <3>4, <3>5
    <2>3. CASE ~last
      <3> DEFINE c == [ c0 EXCEPT ![type] = @ - 1 ]
      <3>1. Decrease(mm, type, TRUE) = With(mm, c, a0)
        BY <1>1, <1>2, <2>1, <2>3 DEF With, PlainManagers
      <3>2. c \in [Types -> Nat] /\ Agree(c, a0, [ n EXCEPT ![type] = @ - 1 ])
        BY <1>1, <1>2, <1>5, <2>3 DEF Agree, Types, Marks, Nested
      <3> QED BY <1>1, <3>1, <3>2
    <2> QED BY <2>2, <2>3
  <1> QED BY <1>3, <1>4, <1>5 DEF Types, Nested
-------------------------------------------------------------------------------

\* The numbers are numbers.
LEMMA NumbersAreNat == ASSUME NEW mm PROVE Numbers(mm) \in [Types -> Nat]
  BY EnabledIsFinite DEF Numbers

\* A lock that becomes enabled is one more of its type.
LEMMA OneMore ==
  ASSUME NEW mm \in PlainManagers, NEW r \in PlainManagers, NEW t \in Tokens,
         r.lock = [ mm.lock EXCEPT ![t] = "ENABLE" ], mm.lock[t] # "ENABLE"
  PROVE  Numbers(r) = [ Numbers(mm) EXCEPT ![TypeOf[t]] = @ + 1 ]
  <1> DEFINE E == Enabled(mm, TypeOf[t])
  <1>1. TypeOf[t] \in Types /\ mm.lock \in [Tokens -> Unproxied]
    BY TokensAssumption DEF PlainManagers
  <1>2. \A type \in Types \ {TypeOf[t]} : Enabled(r, type) = Enabled(mm, type)
    BY <1>1 DEF Enabled
  <1>3. Enabled(r, TypeOf[t]) = E \cup {t} /\ t \notin E
    BY <1>1 DEF Enabled
  <1>4. IsFiniteSet(E)
    BY EnabledIsFinite
  <1> HIDE DEF E
  <1>5. Cardinality(Enabled(r, TypeOf[t])) = Cardinality(E) + 1
    BY <1>3, <1>4, FS_AddElement
  <1> QED BY <1>1, <1>2, <1>5 DEF Numbers, E

\* A lock that was enabled and no longer is, is one less.
LEMMA OneLess ==
  ASSUME NEW mm \in PlainManagers, NEW r \in PlainManagers, NEW t \in Tokens, NEW s \in Unproxied,
      s # "ENABLE",
         r.lock = [ mm.lock EXCEPT ![t] = s ], mm.lock[t] = "ENABLE"
  PROVE  Numbers(r) = [ Numbers(mm) EXCEPT ![TypeOf[t]] = @ - 1 ]
  <1> DEFINE E == Enabled(mm, TypeOf[t])
  <1>1. TypeOf[t] \in Types /\ mm.lock \in [Tokens -> Unproxied]
    BY TokensAssumption DEF PlainManagers
  <1>2. \A type \in Types \ {TypeOf[t]} : Enabled(r, type) = Enabled(mm, type)
    BY <1>1 DEF Enabled
  <1>3. Enabled(r, TypeOf[t]) = E \ {t} /\ t \in E
    BY <1>1 DEF Enabled
  <1>4. IsFiniteSet(E)
    BY EnabledIsFinite
  <1> HIDE DEF E
  <1>5. Cardinality(E \ {t}) = Cardinality(E) - 1
    BY <1>3, <1>4, FS_RemoveElement
  <1> QED BY <1>1, <1>2, <1>3, <1>5 DEF Numbers, E

\* A lock that was not enabled and is not changes no number.
LEMMA SameNumbers ==
  ASSUME NEW mm \in PlainManagers, NEW r \in PlainManagers, NEW t \in Tokens, NEW s \in Unproxied,
      s # "ENABLE",
         r.lock = [ mm.lock EXCEPT ![t] = s ], mm.lock[t] # "ENABLE"
  PROVE  Numbers(r) = Numbers(mm)
  <1>1. mm.lock \in [Tokens -> Unproxied]
    BY DEF PlainManagers
  <1>2. \A type \in Types : Enabled(r, type) = Enabled(mm, type)
    BY <1>1 DEF Enabled
  <1> QED BY <1>2 DEF Numbers

\* The manager with another state of one lock.
Relocked(mm, t, s, S) == [ mm EXCEPT !.lock[t] = s, !.screens = S ]

\* It is the same in everything the counters depend on.
LEMMA RelockedFields ==
  ASSUME NEW mm \in PlainManagers, NEW t \in Tokens, NEW s \in Unproxied, NEW S \in SUBSET Tokens
  PROVE  /\ Relocked(mm, t, s, S) \in PlainManagers
         /\ Relocked(mm, t, s, S).lock = [ mm.lock EXCEPT ![t] = s ]
         /\ Relocked(mm, t, s, S).timer = mm.timer
         /\ Relocked(mm, t, s, S).counter = mm.counter
         /\ Relocked(mm, t, s, S).active = mm.active
  BY DEF PlainManagers, Relocked

\* RunningLockMgr::Lock keeps counters, marks and locks in agreement, also when the HDI refuses.
LEMMA LockKeeps ==
  ASSUME NEW mm \in PlainManagers, Tallied(mm), NEW t \in Tokens, NEW ok \in BOOLEAN
  PROVE  /\ Lock(mm, t, ok) \in PlainManagers /\ Tallied(Lock(mm, t, ok))
         /\ Lock(mm, t, ok).timer = mm.timer
         /\ \/ Lock(mm, t, ok).lock = mm.lock
            \/ /\ Lock(mm, t, ok).lock = [ mm.lock EXCEPT ![t] = "ENABLE" ]
               /\ mm.lock[t] # "ENABLE"
  <1> DEFINE fails == ReachesHdiUp(mm, TypeOf[t]) /\ ~ok
             n == Numbers(mm)
  <1>1. CASE ~ValidateLockForEnable(mm, t)
    BY <1>1 DEF Lock
  <1>2. CASE ValidateLockForEnable(mm, t)
    <2>1. mm.lock[t] # "ENABLE"
      BY <1>2 DEF ValidateLockForEnable
    <2>2. PICK c \in [Types -> Nat], a \in [Marks -> BOOLEAN] :
             /\ Increase(mm, TypeOf[t], ok) = With(mm, c, a)
             /\ Agree(c, a, IF fails THEN n ELSE [ n EXCEPT ![TypeOf[t]] = @ + 1 ])
      <3>1. /\ Bounded(mm) /\ TypeOf[t] \in Types /\ n \in [Types -> Nat]
            /\ Agree(mm.counter, mm.active, n)
        BY TalliedIsBounded, NumbersAreNat, TokensAssumption DEF Tallied
      <3> QED BY <3>1, IncreaseAgrees
    <2>3. PICK up \in PlainManagers :
             /\ up = Increase(mm, TypeOf[t], ok)
             /\ up.counter = c /\ up.active = a /\ up.lock = mm.lock /\ up.timer = mm.timer
             /\ up.screens = mm.screens
      BY <2>2, WithFields
    <2>4. CASE fails
      <3>1. Lock(mm, t, ok) = up
        BY <1>2, <2>3, <2>4 DEF Lock
      <3>2. Numbers(up) = n
        BY <2>3 DEF Numbers, Enabled
      <3> QED BY <2>2, <2>3, <2>4, <3>1, <3>2 DEF Tallied
    <2>5. CASE ~fails
      <3>1. PICK S \in SUBSET Tokens : Lock(mm, t, ok) = Relocked(up, t, "ENABLE", S)
        <4>1. (IF TypeOf[t] = "SCREEN" THEN up.screens \cup {t} ELSE up.screens) \in SUBSET Tokens
          BY DEF PlainManagers
        <4>2. Lock(mm, t, ok) = Relocked(up, t, "ENABLE",
                 IF TypeOf[t] = "SCREEN" THEN up.screens \cup {t} ELSE up.screens)
          BY <1>2, <2>3, <2>5, Zenon DEF Lock, Relocked
        <4> QED BY <4>1, <4>2, Zenon
      <3>2. PICK r \in PlainManagers :
               /\ r = Lock(mm, t, ok)
               /\ r.lock = [ up.lock EXCEPT ![t] = "ENABLE" ] /\ r.timer = up.timer
               /\ r.counter = up.counter /\ r.active = up.active
        <4>1. "ENABLE" \in Unproxied
          BY DEF Unproxied
        <4> QED BY <3>1, <4>1, RelockedFields
      <3>3. r.lock = [ mm.lock EXCEPT ![t] = "ENABLE" ]
        BY <2>3, <3>2
      <3>4. Numbers(r) = [ n EXCEPT ![TypeOf[t]] = @ + 1 ]
        BY <2>1, <3>3, OneMore
      <3>5. Tallied(r)
        BY <2>2, <2>3, <2>5, <3>2, <3>4 DEF Tallied
      <3> QED BY <2>1, <2>3, <3>2, <3>3, <3>5
    <2> QED BY <2>4, <2>5
  <1> QED BY <1>1, <1>2

\* RunningLockMgr::UnLock of a registered lock disables it and keeps the agreement.
LEMMA UnLockKeeps ==
  ASSUME NEW mm \in PlainManagers, Tallied(mm), NEW t \in Tokens, NEW u \in Tokens,
      mm.lock[u] # "none"
  PROVE  /\ UnLock(mm, t, u, TRUE) \in PlainManagers /\ Tallied(UnLock(mm, t, u, TRUE))
         /\ UnLock(mm, t, u, TRUE).timer = mm.timer
         /\ UnLock(mm, t, u, TRUE).lock = [ mm.lock EXCEPT ![u] = "DISABLE" ]
  <1> DEFINE n == Numbers(mm)
  <1>1. mm.lock[u] \in {"DISABLE", "ENABLE"} /\ mm.lock \in [Tokens -> Unproxied]
    BY DEF PlainManagers, Unproxied
  <1>2. CASE mm.lock[u] = "DISABLE"
    <2>1. UnLock(mm, t, u, TRUE) = mm
      BY <1>2, Zenon DEF UnLock
    <2> QED BY <1>1, <1>2, <2>1
  <1>3. CASE mm.lock[u] = "ENABLE"
    <2>1. n[TypeOf[u]] > 0
      <3>1. u \in Enabled(mm, TypeOf[u])
        BY <1>3 DEF Enabled
      <3>2. Cardinality(Enabled(mm, TypeOf[u])) \in Nat /\ Cardinality(Enabled(mm, TypeOf[u])) # 0
        BY <3>1, EnabledIsFinite
      <3> QED BY <3>2, TokensAssumption DEF Numbers
    <2>2. PICK c \in [Types -> Nat], a \in [Marks -> BOOLEAN] :
             /\ Decrease(mm, TypeOf[u], TRUE) = With(mm, c, a)
             /\ Agree(c, a, [ n EXCEPT ![TypeOf[u]] = @ - 1 ])
      <3>1. /\ Bounded(mm) /\ TypeOf[u] \in Types /\ n \in [Types -> Nat]
            /\ Agree(mm.counter, mm.active, n)
        BY TalliedIsBounded, NumbersAreNat, TokensAssumption DEF Tallied
      <3> QED BY <2>1, <3>1, DecreaseAgrees
    <2>3. PICK down \in PlainManagers :
             /\ down = Decrease(mm, TypeOf[u], TRUE)
             /\ down.counter = c /\ down.active = a /\ down.lock = mm.lock /\ down.timer = mm.timer
      BY <2>2, WithFields
    <2>4. PICK S \in SUBSET Tokens : UnLock(mm, t, u, TRUE) = Relocked(down, u, "DISABLE", S)
      <3>1. down.screens \ {u} \in SUBSET Tokens
        BY DEF PlainManagers
      <3>2. UnLock(mm, t, u, TRUE) = Relocked(down, u, "DISABLE", down.screens \ {u})
        BY <1>3, <2>3 DEF UnLock, Relocked
      <3> QED BY <3>1, <3>2, Zenon
    <2>5. PICK r \in PlainManagers :
             /\ r = UnLock(mm, t, u, TRUE)
             /\ r.lock = [ down.lock EXCEPT ![u] = "DISABLE" ] /\ r.timer = down.timer
             /\ r.counter = down.counter /\ r.active = down.active
      <3>1. "DISABLE" \in Unproxied
        BY DEF Unproxied
      <3>2. /\ Relocked(down, u, "DISABLE", S) \in PlainManagers
            /\ Relocked(down, u, "DISABLE", S).lock = [ down.lock EXCEPT ![u] = "DISABLE" ]
            /\ Relocked(down, u, "DISABLE", S).timer = down.timer
            /\ Relocked(down, u, "DISABLE", S).counter = down.counter
            /\ Relocked(down, u, "DISABLE", S).active = down.active
        BY <3>1, RelockedFields
      <3> QED BY <2>4, <3>2, Zenon
    <2>6. r.lock = [ mm.lock EXCEPT ![u] = "DISABLE" ]
      BY <2>3, <2>5
    <2>7. Numbers(r) = [ n EXCEPT ![TypeOf[u]] = @ - 1 ]
      <3>1. "DISABLE" \in Unproxied /\ "DISABLE" # "ENABLE"
        BY DEF Unproxied
      <3> QED BY <1>3, <2>6, <3>1, OneLess
    <2> QED BY <2>2, <2>3, <2>5, <2>6, <2>7 DEF Tallied
  <1> QED BY <1>1, <1>2, <1>3

\* RunningLockMgr::ReleaseLock forgets the lock and keeps the agreement.
LEMMA ReleaseKeeps ==
  ASSUME NEW mm \in PlainManagers, Tallied(mm), NEW t \in Tokens, mm.lock[t] # "none"
  PROVE  /\ ReleaseLock(mm, t, TRUE) \in PlainManagers /\ Tallied(ReleaseLock(mm, t, TRUE))
         /\ ReleaseLock(mm, t, TRUE).timer = mm.timer
         /\ ReleaseLock(mm, t, TRUE).lock = [ mm.lock EXCEPT ![t] = "none" ]
  <1>1. PICK u \in PlainManagers :
           /\ u = UnLock(mm, t, t, TRUE)
           /\ Tallied(u) /\ u.timer = mm.timer /\ u.lock = [ mm.lock EXCEPT ![t] = "DISABLE" ]
    <2>1. /\ UnLock(mm, t, t, TRUE) \in PlainManagers /\ Tallied(UnLock(mm, t, t, TRUE))
          /\ UnLock(mm, t, t, TRUE).timer = mm.timer
          /\ UnLock(mm, t, t, TRUE).lock = [ mm.lock EXCEPT ![t] = "DISABLE" ]
      BY UnLockKeeps
    <2> QED BY <2>1, Zenon
  <1>2. ReleaseLock(mm, t, TRUE)
          = [ u EXCEPT !.lock[t] = "none", !.wks[t] = [ p \in Procs |-> "absent" ], !.cnt[t] = 0 ]
    BY <1>1 DEF ReleaseLock
  <1>3. PICK r \in PlainManagers :
           /\ r = ReleaseLock(mm, t, TRUE)
           /\ r.timer = u.timer /\ r.lock = [ u.lock EXCEPT ![t] = "none" ]
           /\ r.counter = u.counter /\ r.active = u.active
    BY <1>2 DEF PlainManagers, Unproxied, WorkSourceStates
  <1>4. Numbers(r) = Numbers(u)
    <2>1. u.lock[t] # "ENABLE" /\ "none" \in Unproxied /\ "none" # "ENABLE"
      BY <1>1 DEF PlainManagers, Unproxied
    <2> DEFINE none == "none"
    <2>2. none \in Unproxied /\ none # "ENABLE" /\ r.lock = [ u.lock EXCEPT ![t] = none ]
      BY <1>3, <2>1
    <2> HIDE DEF none
    <2> QED BY <2>1, <2>2, SameNumbers
  <1>5. r.lock = [ mm.lock EXCEPT ![t] = "none" ]
    BY <1>1, <1>3 DEF PlainManagers
  <1> QED BY <1>1, <1>3, <1>4, <1>5 DEF Tallied

\* The manager with other timers.
Timing(mm, T) == [ mm EXCEPT !.timer = T ]

\* Timers do not matter to the agreement.
LEMMA TimingKeeps ==
  ASSUME NEW mm \in PlainManagers, Tallied(mm), NEW T \in SUBSET Tokens
  PROVE  /\ Timing(mm, T) \in PlainManagers /\ Tallied(Timing(mm, T))
         /\ Timing(mm, T).timer = T /\ Timing(mm, T).lock = mm.lock
  <1>1. /\ Timing(mm, T) \in PlainManagers /\ Timing(mm, T).timer = T
        /\ Timing(mm, T).lock = mm.lock
        /\ Timing(mm, T).counter = mm.counter /\ Timing(mm, T).active = mm.active
    BY DEF Timing, PlainManagers
  <1>2. Numbers(Timing(mm, T)) = Numbers(mm)
    BY <1>1 DEF Numbers, Enabled
  <1> QED BY <1>1, <1>2 DEF Tallied

\* UnregisterRunningLockTimer takes one timer away.
LEMMA UnregisteredKeeps ==
  ASSUME m \in PlainManagers, Tallied(m), NEW t \in Tokens
  PROVE  \E w \in PlainManagers :
            /\ w = [ m EXCEPT !.timer = @ \ {t} ] /\ Tallied(w)
            /\ w.timer = m.timer \ {t} /\ w.lock = m.lock
  <1>1. m.timer \ {t} \in SUBSET Tokens
    BY DEF PlainManagers
  <1>2. /\ Timing(m, m.timer \ {t}) \in PlainManagers /\ Tallied(Timing(m, m.timer \ {t}))
        /\ Timing(m, m.timer \ {t}).timer = m.timer \ {t} /\ Timing(m, m.timer \ {t}).lock = m.lock
    BY <1>1, TimingKeeps
  <1>3. Timing(m, m.timer \ {t}) = [ m EXCEPT !.timer = @ \ {t} ]
    BY DEF Timing
  <1> QED BY <1>2, <1>3, Zenon

\* What ReleaseRunningLock and ForceUnLock leave behind: neither a lock nor a timer.
LEMMA ReleasedIsGone ==
  ASSUME NEW mm \in PlainManagers, Tallied(mm), NEW t \in Tokens, mm.lock[t] # "none",
         m' = Timing(ReleaseLock(mm, t, TRUE), ReleaseLock(mm, t, TRUE).timer \ {t})
  PROVE  /\ m' \in PlainManagers /\ Tallied(m)' /\ m'.timer = mm.timer \ {t}
         /\ m'.lock = [ mm.lock EXCEPT ![t] = "none" ]
  <1>1. PICK r \in PlainManagers :
           /\ r = ReleaseLock(mm, t, TRUE) /\ Tallied(r) /\ r.timer = mm.timer
           /\ r.lock = [ mm.lock EXCEPT ![t] = "none" ]
    <2>1. /\ ReleaseLock(mm, t, TRUE) \in PlainManagers /\ Tallied(ReleaseLock(mm, t, TRUE))
          /\ ReleaseLock(mm, t, TRUE).timer = mm.timer
          /\ ReleaseLock(mm, t, TRUE).lock = [ mm.lock EXCEPT ![t] = "none" ]
      BY ReleaseKeeps
    <2> QED BY <2>1, Zenon
  <1>2. r.timer \ {t} \in SUBSET Tokens
    BY DEF PlainManagers
  <1>3. /\ Timing(r, r.timer \ {t}) \in PlainManagers /\ Tallied(Timing(r, r.timer \ {t}))
        /\ Timing(r, r.timer \ {t}).timer = r.timer \ {t} /\ Timing(r, r.timer \ {t}).lock = r.lock
    BY <1>1, <1>2, TimingKeeps
  <1>4. /\ m' \in PlainManagers /\ Tallied(m') /\ m'.timer = mm.timer \ {t}
        /\ m'.lock = [ mm.lock EXCEPT ![t] = "none" ]
    BY <1>1, <1>3, Zenon
  <1> QED BY <1>4

\* The UpdateWorkSource with which a time-out begins restores nothing when nothing is proxied.
LEMMA NoWorkSourceKeeps ==
  ASSUME NEW mm \in PlainManagers, Tallied(mm), NEW t \in Tokens
  PROVE  /\ UpdateWorkSource(mm, t, {}, TRUE) \in PlainManagers
         /\ Tallied(UpdateWorkSource(mm, t, {}, TRUE))
         /\ UpdateWorkSource(mm, t, {}, TRUE).timer = mm.timer
         /\ UpdateWorkSource(mm, t, {}, TRUE).lock = mm.lock
  <1> DEFINE none == [ p \in Procs |-> "absent" ]
             r == [ mm EXCEPT !.wks[t] = none, !.cnt[t] = 0 ]
  <1>1. CASE ~InProxyMap(mm, t)
    BY <1>1 DEF UpdateWorkSource
  <1>2. CASE InProxyMap(mm, t)
    <2>1. mm.cnt[t] = 0 /\ Cardinality({}) = 0
      BY FS_EmptySet DEF PlainManagers
    <2>2. [ p \in Procs |-> IF p \notin {} THEN "absent"
              ELSE IF mm.wks[t][p] = "absent" THEN "plain" ELSE mm.wks[t][p] ] = none
      OBVIOUS
    <2>3. { p \in Procs : none[p] = "proxied" } = {}
      OBVIOUS
    <2> HIDE DEF none
    <2>4. UpdateWorkSource(mm, t, {}, TRUE) = r
      BY <1>2, <2>1, <2>2, <2>3 DEF UpdateWorkSource
    <2>5. /\ r \in PlainManagers /\ r.timer = mm.timer /\ r.lock = mm.lock
          /\ r.counter = mm.counter /\ r.active = mm.active
      BY DEF PlainManagers, WorkSourceStates, none
    <2> HIDE DEF r
    <2>6. Numbers(r) = Numbers(mm)
      BY <2>5 DEF Numbers, Enabled
    <2> QED BY <2>4, <2>5, <2>6 DEF Tallied
  <1> QED BY <1>1, <1>2

-------------------------------------------------------------------------------

\* The variables around the manager.
OthersTyped ==
    /\ asleep \in BOOLEAN
    /\ due \subseteq Tokens
    /\ forceTimer \in BOOLEAN /\ toUnlock \subseteq Tokens
    /\ timed \subseteq Tokens
    /\ todo = {}

\* The inductive invariant of the running locks.
LockInv ==
    /\ m \in PlainManagers
    /\ OthersTyped
    /\ Tallied(m)

\* UnLock by token or by name.
LEMMA UnLockByTokenKeeps ==
  ASSUME m \in PlainManagers, Tallied(m), NEW t \in Tokens, UnLockByToken(t, TRUE)
  PROVE  m' \in PlainManagers /\ Tallied(m)'
  <1>1. PICK w \in PlainManagers :
           /\ w = [ m EXCEPT !.timer = @ \ {t} ] /\ Tallied(w)
           /\ w.timer = m.timer \ {t} /\ w.lock = m.lock
    BY UnregisteredKeeps
  <1>2. ASSUME NEW u \in Designated(t), m' = UnLock(w, t, u, TRUE)
        PROVE  m' \in PlainManagers /\ Tallied(m')
    <2>1. u \in Tokens /\ m.lock[u] # "none"
      BY DEF Designated, Registered
    <2>2. w.lock[u] # "none" /\ Tallied(w) /\ u \in Tokens
      BY <1>1, <2>1
    <2>3. UnLock(w, t, u, TRUE) \in PlainManagers /\ Tallied(UnLock(w, t, u, TRUE))
      BY <2>2, UnLockKeeps
    <2> QED BY <1>2, <2>3, Zenon
  <1>3. CASE Designated(t) = {} /\ m' = w
    BY <1>1, <1>3
  <1> QED BY <1>1, <1>2, <1>3 DEF UnLockByToken

\* The invariant holds before the first lock.
LEMMA LockInvInit == Init => LockInv
  <1> SUFFICES ASSUME Init PROVE LockInv
    OBVIOUS
  <1>1. m \in PlainManagers /\ OthersTyped
    BY DEF Init, PlainManagers, Unproxied, WorkSourceStates, OthersTyped
  <1>2. Tallied(m)
    <2>1. \A type \in Types : Enabled(m, type) = {}
      BY DEF Init, Enabled
    <2>2. Numbers(m) = [ type \in Types |-> 0 ]
      BY <2>1, FS_EmptySet DEF Numbers
    <2> QED BY <2>2 DEF Init, Tallied, Agree, Types, Marks
  <1> QED BY <1>1, <1>2 DEF LockInv

\* Every entry of the service, time-out and force-sleep step preserves it, as long as nothing is
\* proxied and the HDI gives locks back.
LEMMA LockInvNext == ASSUME ~AllowProxy, ~UnholdMayFail PROVE LockInv /\ [Next]_vars => LockInv'
  <1> SUFFICES ASSUME LockInv, [Next]_vars PROVE LockInv'
    OBVIOUS
  <1> USE DEF forced, LockMutex
  <1>0. /\ m \in PlainManagers /\ OthersTyped /\ Tallied(m)
        /\ m.lock \in [Tokens -> Unproxied] /\ m.timer \in SUBSET Tokens
    BY DEF LockInv, PlainManagers
  <1>1. ASSUME NEW t \in Tokens, CreateRunningLock(t) PROVE LockInv'
    <2>1. PICK r \in PlainManagers :
             /\ m' = r /\ r.lock = [ m.lock EXCEPT ![t] = "DISABLE" ] /\ r.timer = m.timer
             /\ r.counter = m.counter /\ r.active = m.active
      <3>1. m' = [ m EXCEPT !.lock[t] = "DISABLE" ]
        BY <1>1 DEF CreateRunningLock
      <3>2. /\ m' \in PlainManagers /\ m'.lock = [ m.lock EXCEPT ![t] = "DISABLE" ]
            /\ m'.timer = m.timer
            /\ m'.counter = m.counter /\ m'.active = m.active
        BY <1>0, <3>1 DEF PlainManagers, Unproxied
      <3> QED BY <3>2, Zenon
    <2>2. Numbers(r) = Numbers(m)
      <3> DEFINE s == "DISABLE"
      <3>1. /\ s \in Unproxied /\ s # "ENABLE" /\ r.lock = [ m.lock EXCEPT ![t] = s ]
            /\ m.lock[t] # "ENABLE"
        BY <1>1, <2>1 DEF Unproxied, CreateRunningLock, Registered
      <3> HIDE DEF s
      <3> QED BY <1>0, <3>1, SameNumbers
    <2>3. m' \in PlainManagers /\ Tallied(m)'
      BY <1>0, <2>1, <2>2 DEF Tallied
    <2>4. OthersTyped'
      BY <1>0, <1>1 DEF CreateRunningLock, OthersTyped
    <2> QED BY <2>3, <2>4 DEF LockInv
  <1>2. ASSUME NEW t \in Tokens, TimerFires(t) PROVE LockInv'
    BY <1>0, <1>2 DEF TimerFires, LockInv, OthersTyped
  <1>3. ASSUME NEW t \in Tokens, NEW ok \in HoldAnswers, NEW timeout \in BOOLEAN,
          ServiceLock(t, timeout, ok)
        PROVE  LockInv'
    <2>1. ok \in BOOLEAN
      BY DEF HoldAnswers
    <2>2. PICK locked \in PlainManagers :
             /\ locked = Lock(m, t, ok) /\ Tallied(locked) /\ locked.timer = m.timer
             /\ \/ locked.lock = m.lock
                \/ locked.lock = [ m.lock EXCEPT ![t] = "ENABLE" ] /\ m.lock[t] # "ENABLE"
      <3>1. /\ Lock(m, t, ok) \in PlainManagers /\ Tallied(Lock(m, t, ok))
            /\ Lock(m, t, ok).timer = m.timer
            /\ \/ Lock(m, t, ok).lock = m.lock
               \/ Lock(m, t, ok).lock = [ m.lock EXCEPT ![t] = "ENABLE" ] /\ m.lock[t] # "ENABLE"
        BY <1>0, <2>1, LockKeeps
      <3> QED BY <3>1, Zenon
    <2> DEFINE T == IF timeout THEN m.timer \cup {t} ELSE m.timer
    <2>3. m' = Timing(locked, T)
      BY <1>3, <2>2 DEF ServiceLock, Timing
    <2>4. m' \in PlainManagers /\ Tallied(m)' /\ m'.timer = T /\ m'.lock = locked.lock
      <3>1. T \in SUBSET Tokens
        BY <1>0
      <3> HIDE DEF T
      <3>2. /\ Timing(locked, T) \in PlainManagers /\ Tallied(Timing(locked, T))
            /\ Timing(locked, T).timer = T /\ Timing(locked, T).lock = locked.lock
        BY <2>2, <3>1, TimingKeeps
      <3>3. m' \in PlainManagers /\ Tallied(m') /\ m'.timer = T /\ m'.lock = locked.lock
        BY <2>3, <3>2, Zenon
      <3> QED BY <3>3
    <2>5. timed' = IF timeout THEN timed \cup {t}
                   ELSE IF locked.lock[t] # m.lock[t] THEN timed \ {t} ELSE timed
      BY <1>3, <2>2 DEF ServiceLock
    <2>6. OthersTyped'
      BY <1>0, <1>3, <2>5 DEF ServiceLock, OthersTyped
    <2> QED BY <2>4, <2>6 DEF LockInv
  <1>4. ASSUME NEW t \in Tokens, ServiceUnLock(t, TRUE) PROVE LockInv'
    <2>1. UnLockByToken(t, TRUE)
      BY <1>4 DEF ServiceUnLock
    <2>2. m' \in PlainManagers /\ Tallied(m)'
      BY <1>0, <2>1, UnLockByTokenKeeps
    <2>3. OthersTyped'
      BY <1>0, <1>4 DEF ServiceUnLock, UnLockByToken, OthersTyped
    <2> QED BY <2>2, <2>3 DEF LockInv
  <1>5. ASSUME NEW t \in Tokens, ForceUnLockByTypes(t, TRUE) PROVE LockInv'
    <2>1. UnLockByToken(t, TRUE)
      BY <1>5 DEF ForceUnLockByTypes
    <2>2. m' \in PlainManagers /\ Tallied(m)'
      BY <1>0, <2>1, UnLockByTokenKeeps
    <2>3. OthersTyped'
      BY <1>0, <1>5 DEF ForceUnLockByTypes, UnLockByToken, OthersTyped
    <2> QED BY <2>2, <2>3 DEF LockInv
  <1>6. ASSUME NEW t \in Tokens, ReleaseRunningLock(t, TRUE) PROVE LockInv'
    <2>1. /\ m' \in PlainManagers /\ Tallied(m)' /\ m'.timer = m.timer \ {t}
          /\ m'.lock = [ m.lock EXCEPT ![t] = "none" ]
      <3>1. /\ m.lock[t] # "none"
            /\ m' = Timing(ReleaseLock(m, t, TRUE), ReleaseLock(m, t, TRUE).timer \ {t})
        BY <1>6 DEF ReleaseRunningLock, Registered, Timing
      <3> QED BY <1>0, <3>1, ReleasedIsGone
    <2>2. OthersTyped'
      BY <1>0, <1>6 DEF ReleaseRunningLock, Forget, OthersTyped
    <2> QED BY <2>1, <2>2 DEF LockInv
  <1>7. ASSUME NEW t \in Tokens, ForceUnLock(t, TRUE) PROVE LockInv'
    <2>1. PICK u \in PlainManagers :
             /\ u = UnLock(m, t, t, TRUE) /\ Tallied(u) /\ u.timer = m.timer
             /\ u.lock = [ m.lock EXCEPT ![t] = "DISABLE" ]
      <3>1. m.lock[t] # "none"
        BY <1>7 DEF ForceUnLock, Registered
      <3>2. /\ UnLock(m, t, t, TRUE) \in PlainManagers /\ Tallied(UnLock(m, t, t, TRUE))
            /\ UnLock(m, t, t, TRUE).timer = m.timer
            /\ UnLock(m, t, t, TRUE).lock = [ m.lock EXCEPT ![t] = "DISABLE" ]
        BY <1>0, <3>1, UnLockKeeps
      <3> QED BY <3>2, Zenon
    <2>2. /\ m' \in PlainManagers /\ Tallied(m)' /\ m'.timer = u.timer \ {t}
          /\ m'.lock = [ u.lock EXCEPT ![t] = "none" ]
      <3>1. /\ u.lock[t] # "none"
            /\ m' = Timing(ReleaseLock(u, t, TRUE), ReleaseLock(u, t, TRUE).timer \ {t})
        BY <1>0, <1>7, <2>1 DEF ForceUnLock, Timing
      <3> QED BY <2>1, <3>1, ReleasedIsGone
    <2>3. OthersTyped'
      BY <1>0, <1>7 DEF ForceUnLock, Forget, OthersTyped
    <2> QED BY <2>2, <2>3 DEF LockInv
  <1>8. ASSUME NEW t \in Tokens, TimerTask(t, TRUE) PROVE LockInv'
    <2>1. PICK w \in PlainManagers :
             /\ w = [ m EXCEPT !.timer = @ \ {t} ] /\ Tallied(w) /\ w.timer = m.timer \ {t}
             /\ w.lock = m.lock
      BY <1>0, UnregisteredKeeps
    <2>2. PICK v \in PlainManagers :
             /\ v = UpdateWorkSource(w, t, {}, TRUE) /\ Tallied(v) /\ v.timer = w.timer
             /\ v.lock = w.lock
      <3>1. /\ UpdateWorkSource(w, t, {}, TRUE) \in PlainManagers
            /\ Tallied(UpdateWorkSource(w, t, {}, TRUE))
            /\ UpdateWorkSource(w, t, {}, TRUE).timer = w.timer
            /\ UpdateWorkSource(w, t, {}, TRUE).lock = w.lock
        BY <2>1, NoWorkSourceKeeps
      <3> QED BY <3>1, Zenon
    <2>3. m' = IF m.lock[t] # "none" THEN UnLock(v, t, t, TRUE) ELSE v
      BY <1>8, <2>1, <2>2, Zenon DEF TimerTask, Registered
    <2>4. m' \in PlainManagers /\ Tallied(m')
      <3>1. CASE m.lock[t] = "none"
        BY <2>2, <2>3, <3>1
      <3>2. CASE m.lock[t] # "none"
        <4>1. v.lock[t] # "none"
          BY <2>1, <2>2, <3>2
        <4>2. UnLock(v, t, t, TRUE) \in PlainManagers /\ Tallied(UnLock(v, t, t, TRUE))
          BY <2>2, <4>1, UnLockKeeps
        <4> QED BY <2>3, <3>2, <4>2
      <3> QED BY <3>1, <3>2
    <2>5. OthersTyped'
      BY <1>0, <1>8 DEF TimerTask, OthersTyped
    <2> QED BY <2>4, <2>5 DEF LockInv
  <1>9. CASE PowerStateChanges
    BY <1>0, <1>9 DEF PowerStateChanges, LockInv, OthersTyped
  <1>10. CASE OnReceiveEvent
    BY <1>0, <1>10 DEF OnReceiveEvent, HandleEnterForceSleep, HandleExitForceSleep, LockInv,
       OthersTyped
  <1>11. CASE ForceSleepReleaseLock
    BY <1>0, <1>11 DEF ForceSleepReleaseLock, Enabled, LockInv, OthersTyped
  <1>12. CASE UNCHANGED vars
    BY <1>0, <1>12 DEF vars, LockInv, OthersTyped
  <1>13. UnholdAnswers = {TRUE}
    BY DEF UnholdAnswers
  <1>14. todo = {}
    BY <1>0 DEF OthersTyped
  <1>15. /\ \A p : ~ProxyRunningLock(TRUE, p) /\ ~ProxyRunningLock(FALSE, p)
         /\ \A t, S, ok : ~ServiceUpdateWorkSource(t, S, ok)
         /\ ~ResetRunningLocks
    BY DEF ServiceUpdateWorkSource, ProxyRunningLock, ResetRunningLocks
  <1> QED BY <1>1, <1>2, <1>3, <1>4, <1>5, <1>6, <1>7, <1>8, <1>9, <1>10, <1>11, <1>12, <1>13,
             <1>14, <1>15 DEF Next

\* The invariant holds always.
LEMMA LockInvHolds == ASSUME ~AllowProxy, ~UnholdMayFail PROVE Spec => []LockInv
  BY LockInvInit, LockInvNext, PTL DEF Spec

\* An enabled lock counts.
LEMMA EnabledIsCounted ==
  ASSUME m \in PlainManagers, Tallied(m), NEW t \in Tokens, m.lock[t] = "ENABLE"
  PROVE  Numbers(m)[TypeOf[t]] \in Nat \ {0}
  <1>1. t \in Enabled(m, TypeOf[t]) /\ TypeOf[t] \in Types
    BY TokensAssumption DEF Enabled
  <1>2. Cardinality(Enabled(m, TypeOf[t])) \in Nat /\ Cardinality(Enabled(m, TypeOf[t])) # 0
    BY <1>1, EnabledIsFinite
  <1> QED BY <1>1, <1>2 DEF Numbers

\* LockCounter: no counter ever wraps, although the code's arithmetic is modulo 2^32: it is at most
\* the number of tokens, as long as nothing is proxied and the HDI gives locks back.
THEOREM NoCounterWraps == ASSUME ~AllowProxy, ~UnholdMayFail PROVE Spec => []Bounded(m)
  <1>1. LockInv => Bounded(m)
    BY TalliedIsBounded DEF LockInv
  <1> QED BY <1>1, LockInvHolds, PTL

\* RunningLockMgr: every enabled lock is in force, for any number of tokens of any types, for
\* refused locks, time-outs, deaths, unlocks by name and forced releases. The hypotheses are those
\* of the code's intent: with a proxy it is false (run lock_proxied_unlock).
THEOREM EnabledLocksAreHeld == ASSUME ~AllowProxy, ~UnholdMayFail PROVE Spec => []EnabledIsHeld
  <1>1. LockInv => EnabledIsHeld
    <2> SUFFICES ASSUME LockInv, NEW t \in Tokens, m.lock[t] = "ENABLE"
                 PROVE  /\ TypeOf[t] \in Marks => m.active[TypeOf[t]]
                        /\ TypeOf[t] \in Nested => m.active["TASK"]
      BY DEF EnabledIsHeld
    <2>1. Numbers(m)[TypeOf[t]] \in Nat \ {0} /\ TypeOf[t] \in Types
      BY EnabledIsCounted, TokensAssumption DEF LockInv
    <2>2. Numbers(m) \in [Types -> Nat] /\ Agree(m.counter, m.active, Numbers(m))
      BY NumbersAreNat DEF LockInv, Tallied
    <2>3. m.counter[TypeOf[t]] # 0 /\ (TypeOf[t] \in Nested => m.counter["TASK"] # 0)
      BY <2>1, <2>2 DEF Agree, Nested, Types
    <2> QED BY <2>2, <2>3 DEF Agree, Nested, Marks
  <1> QED BY <1>1, LockInvHolds, PTL

\* RunningLockMgr: when no lock of a type is enabled its action has been undone, under the same
\* hypotheses.
THEOREM NoLockIsHeldInVain == ASSUME ~AllowProxy, ~UnholdMayFail PROVE Spec => []NothingHeldInVain
  <1>1. LockInv => NothingHeldInVain
    <2> SUFFICES ASSUME LockInv PROVE NothingHeldInVain
      OBVIOUS
    <2>1. Numbers(m) \in [Types -> Nat] /\ Agree(m.counter, m.active, Numbers(m))
      BY NumbersAreNat DEF LockInv, Tallied
    <2>2. \A type \in Types : Numbers(m)[type] # 0 => Enabled(m, type) # {}
      BY EnabledIsFinite DEF Numbers
    <2>3. ASSUME NEW type \in {"SCREEN", "PROXIMITY"}, m.active[type] PROVE Enabled(m, type) # {}
      BY <2>1, <2>2, <2>3 DEF Agree, Types
    <2>4. ASSUME m.active["TASK"] PROVE \E type \in Nested \cup {"TASK"} : Enabled(m, type) # {}
      <3>1. m.counter["TASK"] # 0
        BY <2>1, <2>4 DEF Agree
      <3>2. \E type \in Nested \cup {"TASK"} : Numbers(m)[type] # 0
        BY <2>1, <3>1 DEF Agree, Nested, Types
      <3> QED BY <2>2, <3>2 DEF Nested, Types
    <2> QED BY <2>3, <2>4 DEF NothingHeldInVain
  <1> QED BY <1>1, LockInvHolds, PTL

-------------------------------------------------------------------------------
(* The proxy: what follows holds with proxied locks and an HDI that refuses anything. *)

\* The values of a counter.
Counts == 0 .. CounterMod - 1

\* The locks that are enabled or that a proxy holds back.
Live(mm) == { t \in Tokens : mm.lock[t] \in {"ENABLE", "PROXIED"} }

\* ProxyCountMatches, of any manager.
Counted(mm) == \A t \in Tokens : mm.cnt[t] = Cardinality(Proxied(mm, t))

\* The work sources of a token after UpdateProxyState.
Unflagged(w) == [ p \in Procs |-> IF w[p] = "absent" THEN "absent" ELSE "plain" ]

\* Counters and marks alone leave the rest of the manager as it is.
LEMMA CountersAlone ==
  ASSUME NEW mm \in Managers, NEW c \in [Types -> Counts], NEW a \in [Marks -> BOOLEAN]
  PROVE  /\ With(mm, c, a) \in Managers
         /\ With(mm, c, a).counter = c /\ With(mm, c, a).active = a
         /\ With(mm, c, a).lock = mm.lock /\ With(mm, c, a).screens = mm.screens
         /\ With(mm, c, a).wks = mm.wks /\ With(mm, c, a).cnt = mm.cnt
         /\ With(mm, c, a).timer = mm.timer
  BY DEF With, Managers, Counts

\* The counters' arithmetic stays within their width.
LEMMA CountersWrap ==
  ASSUME NEW mm \in Managers, NEW type \in Types
  PROVE  Up(mm, type) \in Counts /\ Down(mm, type) \in Counts
  <1>1. mm.counter[type] \in Int /\ CounterMod \in Nat \ {0}
    BY CounterAssumption, TokensAssumption, FS_CardinalityType DEF Managers
  <1> QED BY <1>1 DEF Up, Down, Counts

\* LockCounter::Increase and Decrease change counters and marks only, whatever the HDI answers.
LEMMA TaskChanges ==
  ASSUME NEW mm \in Managers, NEW ok \in BOOLEAN
  PROVE  /\ \E c \in [Types -> Counts], a \in [Marks -> BOOLEAN] : IncreaseTask(mm, ok) = With(mm, c, a)
         /\ \E c \in [Types -> Counts], a \in [Marks -> BOOLEAN] : DecreaseTask(mm, ok) = With(mm, c, a)
  <1>0. "TASK" \in Types /\ "TASK" \in Marks
    BY DEF Types, Marks
  <1>1. /\ mm.counter \in [Types -> Counts] /\ mm.active \in [Marks -> BOOLEAN]
        /\ mm = With(mm, mm.counter, mm.active)
    BY DEF Managers, With, Counts
  <1>2. Up(mm, "TASK") \in Counts /\ Down(mm, "TASK") \in Counts
    BY <1>0, CountersWrap
  <1>3. \E c \in [Types -> Counts], a \in [Marks -> BOOLEAN] : IncreaseTask(mm, ok) = With(mm, c, a)
    <2>1. CASE Up(mm, "TASK") = 1 /\ ~ok
      BY <1>1, <2>1 DEF IncreaseTask
    <2>2. CASE ~(Up(mm, "TASK") = 1 /\ ~ok)
      <3> DEFINE b == mm.active["TASK"] \/ Up(mm, "TASK") = 1
      <3>1. b \in BOOLEAN
        OBVIOUS
      <3>2. IncreaseTask(mm, ok) = [ mm EXCEPT !.counter["TASK"] = Up(mm, "TASK"), !.active["TASK"] = b ]
        BY <2>2, Zenon DEF IncreaseTask
      <3> HIDE DEF b
      <3> DEFINE c == [ mm.counter EXCEPT !["TASK"] = Up(mm, "TASK") ]
                 a == [ mm.active EXCEPT !["TASK"] = b ]
      <3>3. c \in [Types -> Counts] /\ a \in [Marks -> BOOLEAN]
        BY <1>1, <1>2, <3>1
      <3>4. IncreaseTask(mm, ok) = With(mm, c, a)
        BY <3>2 DEF With, Managers
      <3> QED BY <3>3, <3>4
    <2> QED BY <2>1, <2>2
  <1>4. \E c \in [Types -> Counts], a \in [Marks -> BOOLEAN] : DecreaseTask(mm, ok) = With(mm, c, a)
    <2>1. CASE Down(mm, "TASK") = 0 /\ ~ok
      BY <1>1, <2>1 DEF DecreaseTask
    <2>2. CASE ~(Down(mm, "TASK") = 0 /\ ~ok)
      <3> DEFINE b == mm.active["TASK"] /\ Down(mm, "TASK") # 0
      <3>1. b \in BOOLEAN
        OBVIOUS
      <3>2. DecreaseTask(mm, ok) = [ mm EXCEPT !.counter["TASK"] = Down(mm, "TASK"), !.active["TASK"] = b ]
        BY <2>2, Zenon DEF DecreaseTask
      <3> HIDE DEF b
      <3> DEFINE c == [ mm.counter EXCEPT !["TASK"] = Down(mm, "TASK") ]
                 a == [ mm.active EXCEPT !["TASK"] = b ]
      <3>3. c \in [Types -> Counts] /\ a \in [Marks -> BOOLEAN]
        BY <1>1, <1>2, <3>1
      <3>4. DecreaseTask(mm, ok) = With(mm, c, a)
        BY <3>2 DEF With, Managers
      <3> QED BY <3>3, <3>4
    <2> QED BY <2>1, <2>2
  <1> QED BY <1>3, <1>4

\* So do the counters of the other types.
LEMMA CounterChanges ==
  ASSUME NEW mm \in Managers, NEW type \in Types, NEW ok \in BOOLEAN
  PROVE  /\ \E c \in [Types -> Counts], a \in [Marks -> BOOLEAN] : Increase(mm, type, ok) = With(mm, c, a)
         /\ \E c \in [Types -> Counts], a \in [Marks -> BOOLEAN] : Decrease(mm, type, ok) = With(mm, c, a)
  <1>1. /\ mm.counter \in [Types -> Counts] /\ mm.active \in [Marks -> BOOLEAN]
        /\ mm = With(mm, mm.counter, mm.active)
    BY DEF Managers, With, Counts
  <1>2. Up(mm, type) \in Counts /\ Down(mm, type) \in Counts
    BY CountersWrap
  <1>3. \E c \in [Types -> Counts], a \in [Marks -> BOOLEAN] : Increase(mm, type, ok) = With(mm, c, a)
    <2>1. CASE type = "TASK"
      BY <2>1, TaskChanges DEF Increase
    <2>2. CASE type # "TASK"
      <3> DEFINE first == Up(mm, type) = 1
                 acted == IF type \in Nested /\ first THEN IncreaseTask(mm, ok) ELSE mm
                 fails == ReachesHdiUp(mm, type) /\ ~ok
      <3>1. PICK c \in [Types -> Counts], a \in [Marks -> BOOLEAN] : acted = With(mm, c, a)
        BY <1>1, TaskChanges
      <3>2. Increase(mm, type, ok) =
              [ With(mm, c, a) EXCEPT !.counter[type] = IF fails THEN @ ELSE Up(mm, type),
                  !.active = IF first /\ type \in Marks THEN [ @ EXCEPT ![type] = TRUE ] ELSE @ ]
        BY <2>2, <3>1, Zenon DEF Increase
      <3>3. fails \in BOOLEAN /\ first \in BOOLEAN /\ TRUE \in BOOLEAN
        BY Zenon DEF ReachesHdiUp
      <3> HIDE DEF fails, first, acted
      <3> DEFINE c1 == [ c EXCEPT ![type] = IF fails THEN @ ELSE Up(mm, type) ]
                 a1 == IF first /\ type \in Marks THEN [ a EXCEPT ![type] = TRUE ] ELSE a
      <3>4. c1 \in [Types -> Counts] /\ a1 \in [Marks -> BOOLEAN]
        BY <1>2, <3>3
      <3>5. Increase(mm, type, ok) = With(mm, c1, a1)
        BY <3>2 DEF With, Managers
      <3> QED BY <3>4, <3>5
    <2> QED BY <2>1, <2>2
  <1>4. \E c \in [Types -> Counts], a \in [Marks -> BOOLEAN] : Decrease(mm, type, ok) = With(mm, c, a)
    <2>1. CASE type = "TASK"
      BY <2>1, TaskChanges DEF Decrease
    <2>2. CASE type # "TASK"
      <3> DEFINE last == Down(mm, type) = 0
                 acted == IF type \in Nested /\ last THEN DecreaseTask(mm, ok) ELSE mm
                 fails == ReachesHdiDown(mm, type) /\ ~ok
      <3>1. PICK c \in [Types -> Counts], a \in [Marks -> BOOLEAN] : acted = With(mm, c, a)
        BY <1>1, TaskChanges
      <3>2. Decrease(mm, type, ok) =
              [ With(mm, c, a) EXCEPT !.counter[type] = IF fails THEN @ ELSE Down(mm, type),
                  !.active = IF last /\ type \in Marks THEN [ @ EXCEPT ![type] = FALSE ] ELSE @ ]
        BY <2>2, <3>1, Zenon DEF Decrease
      <3>3. fails \in BOOLEAN /\ last \in BOOLEAN /\ FALSE \in BOOLEAN
        BY Zenon DEF ReachesHdiDown
      <3> HIDE DEF fails, last, acted
      <3> DEFINE c1 == [ c EXCEPT ![type] = IF fails THEN @ ELSE Down(mm, type) ]
                 a1 == IF last /\ type \in Marks THEN [ a EXCEPT ![type] = FALSE ] ELSE a
      <3>4. c1 \in [Types -> Counts] /\ a1 \in [Marks -> BOOLEAN]
        BY <1>2, <3>3
      <3>5. Decrease(mm, type, ok) = With(mm, c1, a1)
        BY <3>2 DEF With, Managers
      <3> QED BY <3>4, <3>5
    <2> QED BY <2>1, <2>2
  <1> QED BY <1>3, <1>4

\* What LockCounter::Increase and Decrease leave alone.
LEMMA CounterKeeps ==
  ASSUME NEW mm \in Managers, NEW type \in Types, NEW ok \in BOOLEAN
  PROVE  \A r \in { Increase(mm, type, ok), Decrease(mm, type, ok) } :
            /\ r \in Managers /\ r.lock = mm.lock /\ r.screens = mm.screens
            /\ r.wks = mm.wks /\ r.cnt = mm.cnt /\ r.timer = mm.timer
  <1>1. PICK c \in [Types -> Counts], a \in [Marks -> BOOLEAN] : Increase(mm, type, ok) = With(mm, c, a)
    BY CounterChanges
  <1>2. PICK c2 \in [Types -> Counts], a2 \in [Marks -> BOOLEAN] : Decrease(mm, type, ok) = With(mm, c2, a2)
    BY CounterChanges
  <1> QED BY <1>1, <1>2, CountersAlone

\* RunningLockMgr::Lock enables the one lock, if any; the proxy's map and the timers stay.
LEMMA LockEffect ==
  ASSUME NEW mm \in Managers, NEW t \in Tokens, NEW ok \in BOOLEAN
  PROVE  \E r \in Managers :
            /\ r = Lock(mm, t, ok)
            /\ r.wks = mm.wks /\ r.cnt = mm.cnt /\ r.timer = mm.timer
            /\ \/ r.lock = mm.lock
               \/ r.lock = [ mm.lock EXCEPT ![t] = "ENABLE" ] /\ mm.lock[t] = "DISABLE"
  <1>1. CASE ~ValidateLockForEnable(mm, t)
    BY <1>1 DEF Lock
  <1>2. CASE ValidateLockForEnable(mm, t)
    <2>1. mm.lock[t] = "DISABLE"
      BY <1>2 DEF ValidateLockForEnable, Registered, Managers, LockStates
    <2>2. PICK up \in Managers :
             /\ up = Increase(mm, TypeOf[t], ok) /\ up.lock = mm.lock
             /\ up.wks = mm.wks /\ up.cnt = mm.cnt /\ up.timer = mm.timer
      BY CounterKeeps, TokensAssumption
    <2>3. CASE ReachesHdiUp(mm, TypeOf[t]) /\ ~ok
      BY <1>2, <2>2, <2>3 DEF Lock
    <2>4. CASE ~(ReachesHdiUp(mm, TypeOf[t]) /\ ~ok)
      <3> DEFINE S == IF TypeOf[t] = "SCREEN" THEN up.screens \cup {t} ELSE up.screens
      <3>1. S \in SUBSET Tokens
        BY DEF Managers
      <3>2. Lock(mm, t, ok) = [ up EXCEPT !.lock[t] = "ENABLE", !.screens = S ]
        BY <1>2, <2>2, <2>4, Zenon DEF Lock
      <3> HIDE DEF S
      <3> DEFINE r == [ up EXCEPT !.lock[t] = "ENABLE", !.screens = S ]
      <3>3. /\ r \in Managers /\ r.lock = [ up.lock EXCEPT ![t] = "ENABLE" ]
            /\ r.wks = up.wks /\ r.cnt = up.cnt /\ r.timer = up.timer
        BY <3>1 DEF Managers, LockStates
      <3> HIDE DEF r
      <3> QED BY <2>1, <2>2, <3>2, <3>3 DEF r
    <2> QED BY <2>3, <2>4
  <1> QED BY <1>1, <1>2

\* RunningLockMgr::UnLock disables the lock unless the HDI refuses; in the proxy's map it clears at
\* most the flags and the count of the token.
LEMMA UnLockEffect ==
  ASSUME NEW mm \in Managers, NEW t \in Tokens, NEW u \in Tokens, NEW ok \in BOOLEAN
  PROVE  \E r \in Managers :
            /\ r = UnLock(mm, t, u, ok)
            /\ r.timer = mm.timer
            /\ \/ r.wks = mm.wks /\ r.cnt = mm.cnt
               \/ /\ r.wks = [ mm.wks EXCEPT ![t] = Unflagged(mm.wks[t]) ]
                  /\ r.cnt = [ mm.cnt EXCEPT ![t] = 0 ]
            /\ \/ r.lock = mm.lock /\ ~ok
               \/ r.lock = [ mm.lock EXCEPT ![u] = "DISABLE" ]
  <1> DEFINE told == IF mm.lock[u] = "PROXIED" /\ u = t THEN UpdateProxyState(mm, t) ELSE mm
  <1>1. PICK w \in Managers :
           /\ w = told /\ w.timer = mm.timer /\ w.lock = mm.lock
           /\ \/ w.wks = mm.wks /\ w.cnt = mm.cnt
              \/ /\ w.wks = [ mm.wks EXCEPT ![t] = Unflagged(mm.wks[t]) ]
                 /\ w.cnt = [ mm.cnt EXCEPT ![t] = 0 ]
    <2>1. UpdateProxyState(mm, t) = [ mm EXCEPT !.wks[t] = Unflagged(mm.wks[t]), !.cnt[t] = 0 ]
      BY DEF UpdateProxyState, Unflagged, Managers
    <2>2. Unflagged(mm.wks[t]) \in [Procs -> WorkSourceStates]
      BY DEF Unflagged, WorkSourceStates
    <2> DEFINE r == [ mm EXCEPT !.wks[t] = Unflagged(mm.wks[t]), !.cnt[t] = 0 ]
    <2>3. /\ r \in Managers /\ r.timer = mm.timer /\ r.lock = mm.lock
          /\ r.wks = [ mm.wks EXCEPT ![t] = Unflagged(mm.wks[t]) ]
          /\ r.cnt = [ mm.cnt EXCEPT ![t] = 0 ]
      BY <2>2 DEF Managers
    <2>4. UpdateProxyState(mm, t) = r
      BY <2>1
    <2> HIDE DEF r
    <2> QED BY <2>3, <2>4
  <1>2. PICK down \in Managers :
           /\ down = Decrease(w, TypeOf[u], ok) /\ down.lock = w.lock
           /\ down.wks = w.wks /\ down.cnt = w.cnt /\ down.timer = w.timer
    BY CounterKeeps, TokensAssumption
  <1>3. UnLock(mm, t, u, ok) =
          IF mm.lock[u] = "DISABLE" THEN w
          ELSE IF ReachesHdiDown(w, TypeOf[u]) /\ ~ok THEN down
          ELSE [ down EXCEPT !.lock[u] = "DISABLE", !.screens = @ \ {u} ]
    BY <1>1, <1>2, Zenon DEF UnLock
  <1> HIDE DEF told
  <1>4. CASE mm.lock[u] = "DISABLE"
    <2>1. mm.lock = [ mm.lock EXCEPT ![u] = "DISABLE" ]
      BY <1>4 DEF Managers
    <2> QED BY <1>1, <1>3, <1>4, <2>1
  <1>5. CASE mm.lock[u] # "DISABLE" /\ ReachesHdiDown(w, TypeOf[u]) /\ ~ok
    BY <1>1, <1>2, <1>3, <1>5
  <1>6. CASE mm.lock[u] # "DISABLE" /\ ~(ReachesHdiDown(w, TypeOf[u]) /\ ~ok)
    <2> DEFINE r == [ down EXCEPT !.lock[u] = "DISABLE", !.screens = @ \ {u} ]
    <2>1. /\ r \in Managers /\ r.lock = [ down.lock EXCEPT ![u] = "DISABLE" ]
          /\ r.wks = down.wks /\ r.cnt = down.cnt /\ r.timer = down.timer
      BY DEF Managers, LockStates
    <2>2. UnLock(mm, t, u, ok) = r
      BY <1>3, <1>6
    <2> HIDE DEF r
    <2> QED BY <1>1, <1>2, <2>1, <2>2
  <1> QED BY <1>4, <1>5, <1>6

\* Without flags nothing is counted.
LEMMA UnflaggedIsZero ==
  ASSUME NEW w \in [Procs -> WorkSourceStates]
  PROVE  /\ Unflagged(w) \in [Procs -> WorkSourceStates]
         /\ Cardinality({ p \in Procs : Unflagged(w)[p] = "proxied" }) = 0
  <1>1. { p \in Procs : Unflagged(w)[p] = "proxied" } = {}
    BY DEF Unflagged
  <1> QED BY <1>1, FS_EmptySet DEF Unflagged, WorkSourceStates

\* A change to one token's work sources and count keeps the counts right when its own is.
LEMMA CountedAt ==
  ASSUME NEW mm \in Managers, Counted(mm), NEW r, NEW t \in Tokens,
         NEW w, NEW n, n = Cardinality({ p \in Procs : w[p] = "proxied" }),
         r.wks = [ mm.wks EXCEPT ![t] = w ], r.cnt = [ mm.cnt EXCEPT ![t] = n ]
  PROVE  Counted(r)
  <1> SUFFICES ASSUME NEW x \in Tokens PROVE r.cnt[x] = Cardinality(Proxied(r, x))
    BY DEF Counted
  <1>1. CASE x = t
    <2>1. r.cnt[x] = n /\ r.wks[x] = w
      BY <1>1 DEF Managers
    <2> QED BY <2>1 DEF Proxied
  <1>2. CASE x # t
    <2>1. r.cnt[x] = mm.cnt[x] /\ r.wks[x] = mm.wks[x]
      BY <1>2 DEF Managers
    <2>2. Proxied(r, x) = Proxied(mm, x)
      BY <2>1 DEF Proxied
    <2> QED BY <2>1, <2>2 DEF Counted
  <1> QED BY <1>1, <1>2

\* The same for a manager whose map is the same.
LEMMA CountedSame ==
  ASSUME NEW mm, Counted(mm), NEW r, r.wks = mm.wks, r.cnt = mm.cnt
  PROVE  Counted(r)
  BY DEF Counted, Proxied

\* The manager has its counts right, no other timers, and no lock has become live.
Kept(mm, r) == r \in Managers /\ Counted(r) /\ r.timer = mm.timer /\ Live(r) \subseteq Live(mm)

\* UnLock keeps the counts right.
LEMMA UnLockCounts ==
  ASSUME NEW mm \in Managers, Counted(mm), NEW t \in Tokens, NEW u \in Tokens, NEW ok \in BOOLEAN
  PROVE  /\ Kept(mm, UnLock(mm, t, u, ok))
         /\ ok => UnLock(mm, t, u, ok).lock = [ mm.lock EXCEPT ![u] = "DISABLE" ]
         /\ Registered(mm, u) => \A x \in Tokens : Registered(UnLock(mm, t, u, ok), x) <=> Registered(mm, x)
  <1>1. PICK r \in Managers :
            /\ r = UnLock(mm, t, u, ok)
            /\ r.timer = mm.timer
            /\ \/ r.wks = mm.wks /\ r.cnt = mm.cnt
               \/ /\ r.wks = [ mm.wks EXCEPT ![t] = Unflagged(mm.wks[t]) ]
                  /\ r.cnt = [ mm.cnt EXCEPT ![t] = 0 ]
            /\ \/ r.lock = mm.lock /\ ~ok
               \/ r.lock = [ mm.lock EXCEPT ![u] = "DISABLE" ]
    BY UnLockEffect
  <1>2. mm.wks[t] \in [Procs -> WorkSourceStates] /\ mm.lock \in [Tokens -> LockStates]
    BY DEF Managers
  <1>3. Counted(r)
    <2>1. CASE r.wks = mm.wks /\ r.cnt = mm.cnt
      BY <2>1, CountedSame
    <2>2. CASE /\ r.wks = [ mm.wks EXCEPT ![t] = Unflagged(mm.wks[t]) ]
               /\ r.cnt = [ mm.cnt EXCEPT ![t] = 0 ]
      BY <1>2, <2>2, UnflaggedIsZero, CountedAt
    <2> QED BY <1>1, <2>1, <2>2
  <1>4. Live(r) \subseteq Live(mm)
    BY <1>1, <1>2 DEF Live
  <1>5. Registered(mm, u) => \A x \in Tokens : Registered(r, x) <=> Registered(mm, x)
    BY <1>1, <1>2 DEF Registered
  <1> QED BY <1>1, <1>3, <1>4, <1>5 DEF Kept

\* RunningLockProxy::RemoveRunningLock: a released lock is counted no more.
LEMMA ReleaseCounts ==
  ASSUME NEW mm \in Managers, Counted(mm), NEW t \in Tokens, NEW ok \in BOOLEAN
  PROVE  Kept(mm, ReleaseLock(mm, t, ok)) /\ t \notin Live(ReleaseLock(mm, t, ok))
  <1>1. PICK u \in Managers : u = UnLock(mm, t, t, ok) /\ Kept(mm, u)
    BY UnLockCounts DEF Kept
  <1> DEFINE none == [ p \in Procs |-> "absent" ]
             r == [ u EXCEPT !.lock[t] = "none", !.wks[t] = none, !.cnt[t] = 0 ]
  <1>2. ReleaseLock(mm, t, ok) = r
    BY <1>1, Zenon DEF ReleaseLock
  <1>3. none \in [Procs -> WorkSourceStates] /\ Cardinality({ p \in Procs : none[p] = "proxied" }) = 0
    <2>1. { p \in Procs : none[p] = "proxied" } = {}
      OBVIOUS
    <2> QED BY <2>1, FS_EmptySet DEF WorkSourceStates
  <1> HIDE DEF none
  <1>4. /\ r \in Managers /\ r.lock = [ u.lock EXCEPT ![t] = "none" ] /\ r.timer = u.timer
        /\ r.wks = [ u.wks EXCEPT ![t] = none ] /\ r.cnt = [ u.cnt EXCEPT ![t] = 0 ]
    BY <1>3 DEF Managers, LockStates
  <1> HIDE DEF r
  <1>5. Counted(r)
    BY <1>1, <1>3, <1>4, CountedAt DEF Kept
  <1>6. Live(r) \subseteq Live(u) /\ t \notin Live(r)
    BY <1>4 DEF Live, Managers
  <1> QED BY <1>1, <1>2, <1>4, <1>5, <1>6 DEF Kept

\* What the proxy does to a registered lock registers and releases nothing.
SameLocks(mm, r) == \A x \in Tokens : Registered(r, x) <=> Registered(mm, x)

\* RunningLockMgr::UnlockInnerByProxy keeps the counts right.
LEMMA UnlockInnerCounts ==
  ASSUME NEW mm \in Managers, Counted(mm), NEW t \in Tokens, NEW ok \in BOOLEAN, Registered(mm, t)
  PROVE  Kept(mm, UnlockInnerByProxy(mm, t, ok)) /\ SameLocks(mm, UnlockInnerByProxy(mm, t, ok))
  <1>1. CASE mm.lock[t] = "DISABLE"
    BY <1>1 DEF UnlockInnerByProxy, Kept, SameLocks
  <1>2. CASE mm.lock[t] # "DISABLE"
    <2>1. PICK u \in Managers :
             u = UnLock(mm, t, t, ok) /\ Kept(mm, u) /\ SameLocks(mm, u)
      BY UnLockCounts DEF Kept, SameLocks
    <2> DEFINE r == [ u EXCEPT !.lock[t] = "PROXIED" ]
    <2>2. UnlockInnerByProxy(mm, t, ok) = r
      BY <1>2, <2>1 DEF UnlockInnerByProxy
    <2>3. /\ r \in Managers /\ r.lock = [ u.lock EXCEPT ![t] = "PROXIED" ] /\ r.timer = u.timer
          /\ r.wks = u.wks /\ r.cnt = u.cnt
      BY DEF Managers, LockStates
    <2> HIDE DEF r
    <2>4. Counted(r)
      BY <2>1, <2>3, CountedSame DEF Kept
    <2>5. t \in Live(mm) /\ Live(r) \subseteq Live(u) \cup {t}
      BY <1>2, <2>3 DEF Live, Managers, LockStates, Registered
    <2>6. SameLocks(u, r)
      BY <2>1, <2>3 DEF SameLocks, Registered, Managers
    <2> QED BY <2>1, <2>2, <2>3, <2>4, <2>5, <2>6 DEF Kept, SameLocks
  <1> QED BY <1>1, <1>2

\* RunningLockMgr::LockInnerByProxy does not touch the proxy's map.
LEMMA LockInnerEffect ==
  ASSUME NEW mm \in Managers, NEW t \in Tokens, NEW ok \in BOOLEAN
  PROVE  \E r \in Managers :
            /\ r = LockInnerByProxy(mm, t, ok)
            /\ r.wks = mm.wks /\ r.cnt = mm.cnt /\ r.timer = mm.timer
            /\ Live(r) \subseteq Live(mm) /\ SameLocks(mm, r)
  <1>1. CASE mm.lock[t] # "PROXIED"
    BY <1>1 DEF LockInnerByProxy, SameLocks
  <1>2. CASE mm.lock[t] = "PROXIED"
    <2> DEFINE d == [ mm EXCEPT !.lock[t] = "DISABLE" ]
    <2>1. /\ d \in Managers /\ d.lock = [ mm.lock EXCEPT ![t] = "DISABLE" ] /\ d.timer = mm.timer
          /\ d.wks = mm.wks /\ d.cnt = mm.cnt
      BY DEF Managers, LockStates
    <2>2. LockInnerByProxy(mm, t, ok) = Lock(d, t, ok)
      BY <1>2 DEF LockInnerByProxy
    <2> HIDE DEF d
    <2>3. PICK r \in Managers :
            /\ r = Lock(d, t, ok)
            /\ r.wks = d.wks /\ r.cnt = d.cnt /\ r.timer = d.timer
            /\ \/ r.lock = d.lock
               \/ r.lock = [ d.lock EXCEPT ![t] = "ENABLE" ] /\ d.lock[t] = "DISABLE"
      BY <2>1, LockEffect
    <2>4. Live(r) \subseteq Live(mm) /\ SameLocks(mm, r)
      BY <1>2, <2>1, <2>3 DEF Live, SameLocks, Registered, Managers
    <2> QED BY <2>1, <2>2, <2>3, <2>4
  <1> QED BY <1>1, <1>2

\* The work sources w and the count n of one token, set by the proxy.
Proxying(mm, t, w, n) == [ mm EXCEPT !.wks[t] = w, !.cnt[t] = n ]

\* It is the same in everything else.
LEMMA ProxyingFields ==
  ASSUME NEW mm \in Managers, NEW t \in Tokens, NEW w \in [Procs -> WorkSourceStates], NEW n \in Nat
  PROVE  /\ Proxying(mm, t, w, n) \in Managers
         /\ Proxying(mm, t, w, n).wks = [ mm.wks EXCEPT ![t] = w ]
         /\ Proxying(mm, t, w, n).cnt = [ mm.cnt EXCEPT ![t] = n ]
         /\ Proxying(mm, t, w, n).lock = mm.lock /\ Proxying(mm, t, w, n).timer = mm.timer
  BY DEF Proxying, Managers

\* It keeps the counts right when n is the number of flags in w.
LEMMA ProxyingCounts ==
  ASSUME NEW mm \in Managers, Counted(mm), NEW t \in Tokens, NEW w \in [Procs -> WorkSourceStates],
         NEW n \in Nat, n = Cardinality({ p \in Procs : w[p] = "proxied" })
  PROVE  Kept(mm, Proxying(mm, t, w, n)) /\ SameLocks(mm, Proxying(mm, t, w, n))
  <1>1. PICK r \in Managers :
           /\ r = Proxying(mm, t, w, n) /\ r.wks = [ mm.wks EXCEPT ![t] = w ]
           /\ r.cnt = [ mm.cnt EXCEPT ![t] = n ] /\ r.lock = mm.lock /\ r.timer = mm.timer
    <2> DEFINE q == Proxying(mm, t, w, n)
    <2>1. /\ q \in Managers /\ q.wks = [ mm.wks EXCEPT ![t] = w ]
          /\ q.cnt = [ mm.cnt EXCEPT ![t] = n ] /\ q.lock = mm.lock /\ q.timer = mm.timer
      BY ProxyingFields
    <2> QED BY <2>1, Zenon
  <1>2. Counted(r)
    BY <1>1, CountedAt
  <1>3. Live(r) = Live(mm) /\ SameLocks(mm, r)
    BY <1>1 DEF Live, SameLocks, Registered
  <1> QED BY <1>1, <1>2, <1>3 DEF Kept

\* One step after the other.
LEMMA KeptTwice ==
  ASSUME NEW mm, NEW r, NEW q, Kept(mm, r), SameLocks(mm, r), Kept(r, q), SameLocks(r, q)
  PROVE  Kept(mm, q) /\ SameLocks(mm, q)
  BY DEF Kept, SameLocks

\* The work sources of a token after Mark.
Marked(w, S, s) == [ p \in Procs |-> IF p \in S /\ w[p] # "absent" THEN s ELSE w[p] ]

\* They are work sources.
LEMMA MarkedType ==
  ASSUME NEW w \in [Procs -> WorkSourceStates], NEW S, NEW s \in {"plain", "proxied"}
  PROVE  Marked(w, S, s) \in [Procs -> WorkSourceStates]
  BY DEF Marked, WorkSourceStates

\* Mark and an update of the count, in one.
LEMMA MarkIsProxying ==
  ASSUME NEW mm \in Managers, NEW t \in Tokens, NEW S, NEW s \in {"plain", "proxied"}, NEW n \in Nat
  PROVE  /\ [ Mark(mm, t, S, s) EXCEPT !.cnt[t] = n ] = Proxying(mm, t, Marked(mm.wks[t], S, s), n)
         /\ Mark(mm, t, S, s) = Proxying(mm, t, Marked(mm.wks[t], S, s), mm.cnt[t])
         /\ Mark(mm, t, S, s).cnt[t] = mm.cnt[t]
  BY DEF Mark, Marked, Proxying, Managers

\* The flags of a token are finitely many.
LEMMA FlagsAreFinite ==
  ASSUME NEW w
  PROVE  /\ IsFiniteSet({ p \in Procs : w[p] = "proxied" })
         /\ Cardinality({ p \in Procs : w[p] = "proxied" }) \in Nat
  <1>1. { p \in Procs : w[p] = "proxied" } \in SUBSET Procs
    OBVIOUS
  <1> QED BY <1>1, TokensAssumption, FS_Subset, FS_CardinalityType

\* The first loop of IncreaseProxyCnt counts what it flags.
LEMMA ProxyAllKeeps ==
  ASSUME NEW mm \in Managers, Counted(mm), NEW t \in Tokens, NEW ok \in BOOLEAN, Registered(mm, t)
  PROVE  Kept(mm, ProxyAll(mm, t, ok)) /\ SameLocks(mm, ProxyAll(mm, t, ok))
  <1> DEFINE w == Marked(mm.wks[t], Procs, "proxied")
             n == Cardinality(WorkSources(mm, t))
             r == Proxying(mm, t, w, n)
  <1>1. { p \in Procs : w[p] = "proxied" } = WorkSources(mm, t)
    BY DEF Marked, WorkSources, Managers, WorkSourceStates
  <1>2. n \in Nat /\ n = Cardinality({ p \in Procs : w[p] = "proxied" })
    BY <1>1, FlagsAreFinite
  <1>3. w \in [Procs -> WorkSourceStates]
    <2>1. mm.wks[t] \in [Procs -> WorkSourceStates]
      BY DEF Managers
    <2> QED BY <2>1, MarkedType
  <1>4. ProxyAll(mm, t, ok) = UnlockInnerByProxy(r, t, ok)
    <2>1. [ Mark(mm, t, Procs, "proxied") EXCEPT !.cnt[t] = n ] = r
      BY <1>2, MarkIsProxying
    <2> QED BY <2>1, Zenon DEF ProxyAll
  <1> HIDE DEF w, n
  <1>5. Kept(mm, r) /\ SameLocks(mm, r)
    BY <1>2, <1>3, ProxyingCounts
  <1> HIDE DEF r
  <1>6. Kept(r, UnlockInnerByProxy(r, t, ok)) /\ SameLocks(r, UnlockInnerByProxy(r, t, ok))
    <2>1. r \in Managers /\ Counted(r) /\ Registered(r, t)
      BY <1>5 DEF Kept, SameLocks
    <2> QED BY <2>1, UnlockInnerCounts
  <1> QED BY <1>4, <1>5, <1>6, KeptTwice

\* The second loop counts one flag more.
LEMMA ProxyOneKeeps ==
  ASSUME NEW mm \in Managers, Counted(mm), NEW t \in Tokens, NEW p \in Procs, NEW ok \in BOOLEAN,
         Registered(mm, t)
  PROVE  Kept(mm, ProxyOne(mm, t, p, ok)) /\ SameLocks(mm, ProxyOne(mm, t, p, ok))
  <1> DEFINE w == Marked(mm.wks[t], {p}, "proxied")
             n == mm.cnt[t] + 1
             r == Proxying(mm, t, w, n)
  <1>0. mm.wks[t] \in [Procs -> WorkSourceStates] /\ mm.cnt[t] \in Nat
    BY DEF Managers
  <1>1. CASE mm.wks[t][p] # "plain"
    BY <1>1 DEF ProxyOne, Kept, SameLocks
  <1>2. CASE mm.wks[t][p] = "plain"
    <2>1. { q \in Procs : w[q] = "proxied" } = Proxied(mm, t) \cup {p} /\ p \notin Proxied(mm, t)
      BY <1>0, <1>2 DEF Marked, Proxied
    <2>2. IsFiniteSet(Proxied(mm, t)) /\ mm.cnt[t] = Cardinality(Proxied(mm, t))
      BY FlagsAreFinite DEF Proxied, Counted
    <2>3. n \in Nat /\ n = Cardinality({ q \in Procs : w[q] = "proxied" })
      <3> DEFINE E == Proxied(mm, t)
      <3> HIDE DEF E
      <3>1. Cardinality(E \cup {p}) = Cardinality(E) + 1
        BY <2>1, <2>2, FS_AddElement DEF E
      <3>2. Cardinality({ q \in Procs : w[q] = "proxied" }) = Cardinality(E \cup {p})
        BY <2>1, Zenon DEF E
      <3>3. mm.cnt[t] = Cardinality(E)
        BY <2>2 DEF E
      <3> QED BY <1>0, <3>1, <3>2, <3>3
    <2>4. w \in [Procs -> WorkSourceStates]
      BY <1>0, MarkedType
    <2>5. [ Mark(mm, t, {p}, "proxied") EXCEPT !.cnt[t] = @ + 1 ] = r
      <3> DEFINE M == Mark(mm, t, {p}, "proxied")
      <3>1. "proxied" \in {"plain", "proxied"}
        OBVIOUS
      <3>2. M.cnt[t] = mm.cnt[t] /\ [ M EXCEPT !.cnt[t] = n ] = r
        <4> DEFINE P == {p}
        <4>1. /\ [ Mark(mm, t, P, "proxied") EXCEPT !.cnt[t] = n ] = Proxying(mm, t, Marked(mm.wks[t], P, "proxied"), n)
              /\ Mark(mm, t, P, "proxied").cnt[t] = mm.cnt[t]
          <5> HIDE DEF P, n
          <5> QED BY <2>3, <3>1, MarkIsProxying
        <4> QED BY <4>1, Zenon
      <3> HIDE DEF M, r
      <3> QED BY <3>2 DEF M
    <2>6. ProxyOne(mm, t, p, ok) \in { r, UnlockInnerByProxy(r, t, ok) }
      BY <1>2, <2>5 DEF ProxyOne
    <2> HIDE DEF w, n
    <2>7. Kept(mm, r) /\ SameLocks(mm, r)
      BY <2>3, <2>4, ProxyingCounts
    <2> HIDE DEF r
    <2>8. Kept(r, UnlockInnerByProxy(r, t, ok)) /\ SameLocks(r, UnlockInnerByProxy(r, t, ok))
      <3>1. r \in Managers /\ Counted(r) /\ Registered(r, t)
        BY <2>7 DEF Kept, SameLocks
      <3> QED BY <3>1, UnlockInnerCounts
    <2> QED BY <2>6, <2>7, <2>8, KeptTwice
  <1> QED BY <1>1, <1>2

\* LockInnerByProxy keeps the counts right.
LEMMA LockInnerCounts ==
  ASSUME NEW mm \in Managers, Counted(mm), NEW t \in Tokens, NEW ok \in BOOLEAN
  PROVE  Kept(mm, LockInnerByProxy(mm, t, ok)) /\ SameLocks(mm, LockInnerByProxy(mm, t, ok))
  <1>1. PICK r \in Managers :
            /\ r = LockInnerByProxy(mm, t, ok)
            /\ r.wks = mm.wks /\ r.cnt = mm.cnt /\ r.timer = mm.timer
            /\ Live(r) \subseteq Live(mm) /\ SameLocks(mm, r)
    BY LockInnerEffect
  <1>2. Counted(r)
    BY <1>1, CountedSame
  <1> QED BY <1>1, <1>2 DEF Kept

\* The first loop of DecreaseProxyCnt clears flags and count.
LEMMA UnproxyAllKeeps ==
  ASSUME NEW mm \in Managers, Counted(mm), NEW t \in Tokens, NEW ok \in BOOLEAN
  PROVE  Kept(mm, UnproxyAll(mm, t, ok)) /\ SameLocks(mm, UnproxyAll(mm, t, ok))
  <1> DEFINE w == Marked(mm.wks[t], Procs, "plain")
             r == Proxying(mm, t, w, 0)
  <1>0. mm.wks[t] \in [Procs -> WorkSourceStates]
    BY DEF Managers
  <1>1. { p \in Procs : w[p] = "proxied" } = {}
    BY <1>0 DEF Marked, WorkSourceStates
  <1>2. 0 = Cardinality({ p \in Procs : w[p] = "proxied" }) /\ w \in [Procs -> WorkSourceStates]
    BY <1>0, <1>1, FS_EmptySet, MarkedType
  <1>3. UnproxyAll(mm, t, ok) = LockInnerByProxy(r, t, ok)
    BY MarkIsProxying DEF UnproxyAll
  <1> HIDE DEF w
  <1>4. Kept(mm, r) /\ SameLocks(mm, r)
    BY <1>2, ProxyingCounts
  <1> HIDE DEF r
  <1>5. Kept(r, LockInnerByProxy(r, t, ok)) /\ SameLocks(r, LockInnerByProxy(r, t, ok))
    BY <1>4, LockInnerCounts DEF Kept
  <1> QED BY <1>3, <1>4, <1>5, KeptTwice

\* The second loop counts one flag less.
LEMMA UnproxyOneKeeps ==
  ASSUME NEW mm \in Managers, Counted(mm), NEW t \in Tokens, NEW p \in Procs, NEW ok \in BOOLEAN
  PROVE  Kept(mm, UnproxyOne(mm, t, p, ok)) /\ SameLocks(mm, UnproxyOne(mm, t, p, ok))
  <1> DEFINE w == Marked(mm.wks[t], {p}, "plain")
             n == IF mm.cnt[t] = 0 THEN 0 ELSE mm.cnt[t] - 1
             r == Proxying(mm, t, w, n)
  <1>0. mm.wks[t] \in [Procs -> WorkSourceStates] /\ mm.cnt[t] \in Nat
    BY DEF Managers
  <1>1. CASE mm.wks[t][p] # "proxied"
    BY <1>1 DEF UnproxyOne, Kept, SameLocks
  <1>2. CASE mm.wks[t][p] = "proxied"
    <2>1. { q \in Procs : w[q] = "proxied" } = Proxied(mm, t) \ {p} /\ p \in Proxied(mm, t)
      BY <1>0, <1>2 DEF Marked, Proxied
    <2>2. IsFiniteSet(Proxied(mm, t)) /\ mm.cnt[t] = Cardinality(Proxied(mm, t))
      BY FlagsAreFinite DEF Proxied, Counted
    <2>a. mm.cnt[t] # 0
      BY <2>1, <2>2, FS_EmptySet
    <2>3. n \in Nat /\ n = Cardinality({ q \in Procs : w[q] = "proxied" })
      <3> DEFINE E == Proxied(mm, t)
      <3> HIDE DEF E
      <3>1. Cardinality(E \ {p}) = Cardinality(E) - 1
        BY <2>1, <2>2, FS_RemoveElement DEF E
      <3>2. Cardinality({ q \in Procs : w[q] = "proxied" }) = Cardinality(E \ {p})
        BY <2>1, Zenon DEF E
      <3>3. mm.cnt[t] = Cardinality(E)
        BY <2>2 DEF E
      <3> QED BY <1>0, <2>a, <3>1, <3>2, <3>3
    <2>4. w \in [Procs -> WorkSourceStates]
      BY <1>0, MarkedType
    <2>5. [ Mark(mm, t, {p}, "plain") EXCEPT !.cnt[t] = IF @ = 0 THEN 0 ELSE @ - 1 ] = r
      <3> DEFINE M == Mark(mm, t, {p}, "plain")
      <3>1. "plain" \in {"plain", "proxied"}
        OBVIOUS
      <3>2. M.cnt[t] = mm.cnt[t] /\ [ M EXCEPT !.cnt[t] = n ] = r
        <4> DEFINE P == {p}
        <4>1. /\ [ Mark(mm, t, P, "plain") EXCEPT !.cnt[t] = n ] = Proxying(mm, t, Marked(mm.wks[t], P, "plain"), n)
              /\ Mark(mm, t, P, "plain").cnt[t] = mm.cnt[t]
          <5> HIDE DEF P, n
          <5> QED BY <2>3, <3>1, MarkIsProxying
        <4> QED BY <4>1, Zenon
      <3> HIDE DEF M, r
      <3> QED BY <3>2 DEF M
    <2>6. UnproxyOne(mm, t, p, ok) \in { r, LockInnerByProxy(r, t, ok) }
      BY <1>2, <2>5 DEF UnproxyOne
    <2> HIDE DEF w, n
    <2>7. Kept(mm, r) /\ SameLocks(mm, r)
      BY <2>3, <2>4, ProxyingCounts
    <2> HIDE DEF r
    <2>8. Kept(r, LockInnerByProxy(r, t, ok)) /\ SameLocks(r, LockInnerByProxy(r, t, ok))
      BY <2>7, LockInnerCounts DEF Kept
    <2> QED BY <2>6, <2>7, <2>8, KeptTwice
  <1> QED BY <1>1, <1>2

\* ResetRunningLocks clears the flags before it restores the lock and the count after: in between
\* they disagree, and nothing reads the count.
LEMMA ResetKeeps ==
  ASSUME NEW mm \in Managers, Counted(mm), NEW t \in Tokens, NEW ok \in BOOLEAN
  PROVE  Kept(mm, ResetProxy(mm, t, ok)) /\ SameLocks(mm, ResetProxy(mm, t, ok))
  <1> DEFINE w == Marked(mm.wks[t], Procs, "plain")
             r == Proxying(mm, t, w, mm.cnt[t])
  <1>0. mm.wks[t] \in [Procs -> WorkSourceStates] /\ mm.cnt[t] \in Nat
    BY DEF Managers
  <1>1. 0 = Cardinality({ p \in Procs : w[p] = "proxied" }) /\ w \in [Procs -> WorkSourceStates]
    <2>1. { p \in Procs : w[p] = "proxied" } = {}
      BY <1>0 DEF Marked, WorkSourceStates
    <2> QED BY <1>0, <2>1, FS_EmptySet, MarkedType
  <1>2. Mark(mm, t, Procs, "plain") = r
    BY <1>0, MarkIsProxying
  <1> HIDE DEF w
  <1>3. /\ r \in Managers /\ r.wks = [ mm.wks EXCEPT ![t] = w ]
        /\ r.cnt = [ mm.cnt EXCEPT ![t] = mm.cnt[t] ] /\ r.lock = mm.lock /\ r.timer = mm.timer
    BY <1>0, <1>1, ProxyingFields
  <1> HIDE DEF r
  <1>4. PICK l \in Managers :
            /\ l = LockInnerByProxy(r, t, ok)
            /\ l.wks = r.wks /\ l.cnt = r.cnt /\ l.timer = r.timer
            /\ Live(l) \subseteq Live(r) /\ SameLocks(r, l)
    BY <1>3, LockInnerEffect
  <1> DEFINE q == [ l EXCEPT !.cnt[t] = 0 ]
  <1>5. ResetProxy(mm, t, ok) = q
    BY <1>2, <1>4 DEF ResetProxy
  <1>6. /\ q \in Managers /\ q.wks = l.wks /\ q.cnt = [ l.cnt EXCEPT ![t] = 0 ]
        /\ q.lock = l.lock /\ q.timer = l.timer
    BY DEF Managers
  <1> HIDE DEF q
  <1>7. q.wks = [ mm.wks EXCEPT ![t] = w ] /\ q.cnt = [ mm.cnt EXCEPT ![t] = 0 ]
    <2>1. [ mm.cnt EXCEPT ![t] = mm.cnt[t] ] = mm.cnt
      BY DEF Managers
    <2> QED BY <1>3, <1>4, <1>6, <2>1
  <1>8. Counted(q)
    BY <1>1, <1>7, CountedAt
  <1>9. Live(q) \subseteq Live(mm) /\ SameLocks(mm, q)
    BY <1>3, <1>4, <1>6 DEF Live, SameLocks, Registered
  <1> QED BY <1>3, <1>4, <1>5, <1>6, <1>8, <1>9 DEF Kept

\* UpdateWorkSource counts the flags of the new work sources.
LEMMA UpdateKeeps ==
  ASSUME NEW mm \in Managers, Counted(mm), NEW t \in Tokens, NEW S \in SUBSET Procs, NEW ok \in BOOLEAN
  PROVE  Kept(mm, UpdateWorkSource(mm, t, S, ok)) /\ SameLocks(mm, UpdateWorkSource(mm, t, S, ok))
  <1> DEFINE new == [ p \in Procs |-> IF p \notin S THEN "absent"
                                      ELSE IF mm.wks[t][p] = "absent" THEN "plain" ELSE mm.wks[t][p] ]
             n == Cardinality({ p \in Procs : new[p] = "proxied" })
  <1>0. new \in [Procs -> WorkSourceStates] /\ n \in Nat
    <2>1. new \in [Procs -> WorkSourceStates]
      BY DEF Managers, WorkSourceStates
    <2> HIDE DEF new
    <2> QED BY <2>1, FlagsAreFinite
  <1>1. CASE ~InProxyMap(mm, t)
    BY <1>1 DEF UpdateWorkSource, Kept, SameLocks
  <1>2. CASE InProxyMap(mm, t)
    <2>1. PICK a : /\ UpdateWorkSource(mm, t, S, ok) = [ a EXCEPT !.wks[t] = new, !.cnt[t] = n ]
                   /\ a \in { mm, LockInnerByProxy(mm, t, ok), UnlockInnerByProxy(mm, t, ok) }
      <3> DEFINE isProxyed == mm.cnt[t] # 0 /\ mm.cnt[t] = Cardinality(WorkSources(mm, t))
                 a == CASE isProxyed /\ Cardinality(S) > n -> LockInnerByProxy(mm, t, ok)
                        [] ~isProxyed /\ S # {} /\ Cardinality(S) = n -> UnlockInnerByProxy(mm, t, ok)
                        [] OTHER -> mm
      <3>1. UpdateWorkSource(mm, t, S, ok) = [ a EXCEPT !.wks[t] = new, !.cnt[t] = n ]
        BY <1>2, Zenon DEF UpdateWorkSource
      <3>2. a \in { mm, LockInnerByProxy(mm, t, ok), UnlockInnerByProxy(mm, t, ok) }
        <4> HIDE DEF isProxyed, n, new
        <4> QED OBVIOUS
      <3> HIDE DEF a
      <3> QED BY <3>1, <3>2
    <2>2. Kept(mm, a) /\ SameLocks(mm, a)
      <3>1. Registered(mm, t)
        BY <1>2 DEF InProxyMap
      <3>2. Kept(mm, mm) /\ SameLocks(mm, mm)
        BY DEF Kept, SameLocks
      <3> QED BY <2>1, <3>1, <3>2, LockInnerCounts, UnlockInnerCounts
    <2> HIDE DEF new, n
    <2>3. UpdateWorkSource(mm, t, S, ok) = Proxying(a, t, new, n)
      BY <2>1 DEF Proxying
    <2>4. Kept(a, Proxying(a, t, new, n)) /\ SameLocks(a, Proxying(a, t, new, n))
      BY <1>0, <2>2, ProxyingCounts DEF Kept, n
    <2> QED BY <2>2, <2>3, <2>4, KeptTwice
  <1> QED BY <1>1, <1>2

\* Timers do not matter to the proxy.
LEMMA TimingCounts ==
  ASSUME NEW mm \in Managers, Counted(mm), NEW T \in SUBSET Tokens
  PROVE  /\ Timing(mm, T) \in Managers /\ Counted(Timing(mm, T)) /\ Timing(mm, T).timer = T
         /\ Timing(mm, T).lock = mm.lock
  <1>1. /\ Timing(mm, T) \in Managers /\ Timing(mm, T).timer = T /\ Timing(mm, T).lock = mm.lock
        /\ Timing(mm, T).wks = mm.wks /\ Timing(mm, T).cnt = mm.cnt
    BY DEF Timing, Managers
  <1> QED BY <1>1, CountedSame

\* The inductive invariant of the proxy: the types, the counts, and that a loop only visits locks
\* that are registered, which lockMutex_ sees to.
ProxyInv == TypeOK /\ ProxyCountMatches /\ \A x \in todo : Registered(m, x.t)

\* A lock taken with a time-out keeps its timer, or the callback that waits, also while it is
\* proxied; otherwise it would be restored without one.
TimedIsTimed == \A t \in timed : t \in Live(m) => t \in m.timer \cup due

\* The two stand or fall with these facts about a step.
LEMMA ProxyInvStep ==
  ASSUME m' \in Managers, Counted(m'), todo' = {}, asleep' \in BOOLEAN, due' \subseteq Tokens,
         forceTimer' \in BOOLEAN, toUnlock' \subseteq Tokens, timed' \subseteq Tokens
  PROVE  ProxyInv'
  BY DEF ProxyInv, TypeOK, ProxyCountMatches, Counted, Proxied

\* A step that takes the timer of t away along with the lock, and enables nothing.
LEMMA TimedStep ==
  ASSUME TimedIsTimed, NEW t, Live(m') \subseteq Live(m) \ {t},
         m'.timer = m.timer \ {t}, due \ {t} \subseteq due', timed' \subseteq timed
  PROVE  TimedIsTimed'
  BY DEF TimedIsTimed, Live

\* UnLock by token or by name.
LEMMA UnLockByTokenCounts ==
  ASSUME TypeOK, Counted(m), NEW t \in Tokens, NEW ok \in BOOLEAN, UnLockByToken(t, ok)
  PROVE  /\ m' \in Managers /\ Counted(m') /\ m'.timer = m.timer \ {t} /\ todo' = {}
         /\ ok => Live(m') \subseteq Live(m) \ {t}
  <1> DEFINE w == [ m EXCEPT !.timer = @ \ {t} ]
  <1>0. m \in Managers /\ m.timer \ {t} \in SUBSET Tokens
    BY DEF TypeOK, Managers
  <1>1. w \in Managers /\ Counted(w) /\ w.timer = m.timer \ {t} /\ w.lock = m.lock
    <2>1. w = Timing(m, m.timer \ {t})
      BY DEF Timing
    <2>2. /\ Timing(m, m.timer \ {t}) \in Managers /\ Counted(Timing(m, m.timer \ {t}))
          /\ Timing(m, m.timer \ {t}).timer = m.timer \ {t} /\ Timing(m, m.timer \ {t}).lock = m.lock
      BY <1>0, TimingCounts
    <2> HIDE DEF w
    <2> QED BY <2>1, <2>2
  <1>2. /\ todo' = {}
        /\ \/ \E u \in Designated(t) : m' = UnLock(w, t, u, ok)
           \/ Designated(t) = {} /\ m' = w
    BY DEF UnLockByToken, LockMutex
  <1> HIDE DEF w
  <1>3. Live(w) = Live(m)
    BY <1>1 DEF Live
  <1>4. ASSUME NEW u \in Designated(t), m' = UnLock(w, t, u, ok)
        PROVE  /\ m' \in Managers /\ Counted(m') /\ m'.timer = m.timer \ {t}
               /\ ok => Live(m') \subseteq Live(m) \ {t}
    <2>1. u \in Tokens /\ (u # t => m.lock[t] = "none")
      BY DEF Designated, Registered
    <2>2. Kept(w, m') /\ (ok => m'.lock = [ w.lock EXCEPT ![u] = "DISABLE" ])
      BY <1>1, <1>4, <2>1, UnLockCounts
    <2>3. m' \in Managers /\ Counted(m') /\ m'.timer = w.timer /\ Live(m') \subseteq Live(w)
      BY <2>2 DEF Kept
    <2>4. ok => t \notin Live(m')
      BY <1>0, <1>1, <2>1, <2>2 DEF Live, Managers
    <2> QED BY <1>1, <1>3, <2>3, <2>4
  <1>5. CASE Designated(t) = {} /\ m' = w
    <2>1. t \notin Live(m)
      BY <1>5 DEF Designated, Registered, Live
    <2>2. m' \in Managers /\ Counted(m') /\ m'.timer = m.timer \ {t} /\ Live(m') = Live(m)
      BY <1>1, <1>3, <1>5, Zenon
    <2> QED BY <1>2, <2>1, <2>2
  <1> QED BY <1>2, <1>4, <1>5

\* ReleaseRunningLock and ForceUnLock.
LEMMA ReleasedCounts ==
  ASSUME NEW mm \in Managers, Counted(mm), NEW t \in Tokens, NEW ok \in BOOLEAN
  PROVE  \E q \in Managers :
            /\ q = Timing(ReleaseLock(mm, t, ok), ReleaseLock(mm, t, ok).timer \ {t})
            /\ Counted(q) /\ q.timer = mm.timer \ {t} /\ Live(q) \subseteq Live(mm) \ {t}
  <1>1. PICK r \in Managers : r = ReleaseLock(mm, t, ok) /\ Kept(mm, r) /\ t \notin Live(r)
    BY ReleaseCounts DEF Kept
  <1> DEFINE T == r.timer \ {t}
             q == Timing(r, T)
  <1>2. q \in Managers /\ Counted(q) /\ q.timer = T /\ q.lock = r.lock
    <2>1. T \in SUBSET Tokens
      BY DEF Managers
    <2> HIDE DEF T
    <2> QED BY <1>1, <2>1, TimingCounts DEF Kept
  <1>3. q = Timing(ReleaseLock(mm, t, ok), ReleaseLock(mm, t, ok).timer \ {t})
    BY <1>1, Zenon
  <1> HIDE DEF q
  <1>4. Live(q) = Live(r)
    BY <1>2 DEF Live
  <1>5. q.timer = mm.timer \ {t} /\ Live(q) \subseteq Live(mm) \ {t}
    BY <1>1, <1>2, <1>4 DEF Kept
  <1> QED BY <1>2, <1>3, <1>5, Zenon

\* A step of a loop.
LEMMA LoopBodyCounts ==
  ASSUME NEW mm \in Managers, Counted(mm), NEW x \in LoopSteps, NEW ok \in BOOLEAN, Registered(mm, x.t)
  PROVE  Kept(mm, LoopBody(mm, x, ok)) /\ SameLocks(mm, LoopBody(mm, x, ok))
  <1>1. /\ x.t \in Tokens /\ x.p \in Procs
        /\ x.op \in {"ProxyAll", "ProxyOne", "UnproxyAll", "UnproxyOne", "Reset"}
    BY DEF LoopSteps
  <1>2. CASE x.op = "ProxyAll"
    BY <1>1, <1>2, ProxyAllKeeps DEF LoopBody
  <1>3. CASE x.op = "ProxyOne"
    BY <1>1, <1>3, ProxyOneKeeps DEF LoopBody
  <1>4. CASE x.op = "UnproxyAll"
    BY <1>1, <1>4, UnproxyAllKeeps DEF LoopBody
  <1>5. CASE x.op = "UnproxyOne"
    BY <1>1, <1>5, UnproxyOneKeeps DEF LoopBody
  <1>6. CASE x.op = "Reset"
    BY <1>1, <1>6, ResetKeeps DEF LoopBody
  <1> QED BY <1>1, <1>2, <1>3, <1>4, <1>5, <1>6

\* The loops visit tokens of proxyMap_.
LEMMA LoopsAreTyped ==
  ASSUME NEW op \in {"ProxyAll", "ProxyOne", "UnproxyAll", "UnproxyOne", "Reset"},
         NEW S \in SUBSET Tokens, NEW p \in Procs
  PROVE  Loop(op, S, p) \subseteq LoopSteps /\ \A x \in Loop(op, S, p) : Registered(m, x.t)
  BY DEF Loop, LoopSteps, InProxyMap

\* The proxy's map is empty at first.
LEMMA ProxyInvInit == Init => ProxyInv /\ TimedIsTimed
  <1> SUFFICES ASSUME Init PROVE ProxyInv /\ TimedIsTimed
    OBVIOUS
  <1>1. TypeOK
    <2>1. 0 \in 0 .. CounterMod - 1
      BY CounterAssumption, TokensAssumption, FS_CardinalityType
    <2> QED BY <2>1 DEF Init, TypeOK, Managers, LockStates, WorkSourceStates
  <1>2. ProxyCountMatches
    <2> SUFFICES ASSUME NEW t \in Tokens PROVE m.cnt[t] = Cardinality(Proxied(m, t))
      BY DEF ProxyCountMatches
    <2>1. Proxied(m, t) = {} /\ m.cnt[t] = 0
      BY DEF Init, Proxied
    <2> QED BY <2>1, FS_EmptySet
  <1> QED BY <1>1, <1>2 DEF Init, ProxyInv, TimedIsTimed

\* Every entry, every time-out and every step of a loop preserves it, whatever the HDI answers; the
\* timers of live locks are kept by an HDI that gives locks back.
LEMMA ProxyInvNext ==
  ASSUME ProxyInv, [Next]_vars
  PROVE  ProxyInv' /\ (~UnholdMayFail /\ TimedIsTimed => TimedIsTimed')
  <1> USE DEF forced, LockMutex
  <1> DEFINE Goal == ProxyInv' /\ (~UnholdMayFail /\ TimedIsTimed => TimedIsTimed')
  <1>0. /\ TypeOK /\ m \in Managers /\ Counted(m) /\ todo \subseteq LoopSteps
        /\ asleep \in BOOLEAN /\ due \subseteq Tokens /\ forceTimer \in BOOLEAN
        /\ toUnlock \subseteq Tokens /\ timed \subseteq Tokens
        /\ \A x \in todo : Registered(m, x.t)
        /\ m.lock \in [Tokens -> LockStates] /\ m.timer \in SUBSET Tokens
    BY DEF ProxyInv, TypeOK, ProxyCountMatches, Counted, Managers
  <1>1. ASSUME NEW t \in Tokens, CreateRunningLock(t) PROVE Goal
    <2>1. /\ m' \in Managers /\ m'.wks = m.wks /\ m'.cnt = m.cnt /\ m'.timer = m.timer
          /\ m'.lock = [ m.lock EXCEPT ![t] = "DISABLE" ]
      <3> DEFINE r == [ m EXCEPT !.lock[t] = "DISABLE" ]
      <3>1. /\ r \in Managers /\ r.wks = m.wks /\ r.cnt = m.cnt /\ r.timer = m.timer
            /\ r.lock = [ m.lock EXCEPT ![t] = "DISABLE" ]
        BY <1>0 DEF Managers, LockStates
      <3> HIDE DEF r
      <3> QED BY <1>1, <3>1 DEF CreateRunningLock, r
    <2>2. Counted(m')
      BY <1>0, <2>1, CountedSame
    <2>3. ProxyInv'
      BY <1>0, <1>1, <2>1, <2>2, ProxyInvStep DEF CreateRunningLock
    <2>4. Live(m') \subseteq Live(m)
      BY <1>0, <2>1 DEF Live
    <2> QED BY <1>1, <2>1, <2>3, <2>4 DEF CreateRunningLock, TimedIsTimed
  <1>2. ASSUME NEW t \in Tokens, TimerFires(t) PROVE Goal
    <2>1. ProxyInv'
      BY <1>0, <1>2 DEF TimerFires, ProxyInv, TypeOK, ProxyCountMatches, Proxied, Registered
    <2> QED BY <1>2, <2>1 DEF TimerFires, TimedIsTimed, Live
  <1>3. ASSUME NEW t \in Tokens, NEW ok \in BOOLEAN, NEW timeout \in BOOLEAN, ServiceLock(t, timeout, ok)
        PROVE  Goal
    <2>1. PICK l \in Managers :
            /\ l = Lock(m, t, ok)
            /\ l.wks = m.wks /\ l.cnt = m.cnt /\ l.timer = m.timer
            /\ \/ l.lock = m.lock
               \/ l.lock = [ m.lock EXCEPT ![t] = "ENABLE" ] /\ m.lock[t] = "DISABLE"
      BY <1>0, LockEffect
    <2> DEFINE T == IF timeout THEN m.timer \cup {t} ELSE m.timer
    <2>2. /\ m' = Timing(l, T) /\ todo' = {} /\ due' = due /\ asleep' = asleep
          /\ forceTimer' = forceTimer /\ toUnlock' = toUnlock
          /\ timed' = IF timeout THEN timed \cup {t}
                      ELSE IF l.lock[t] # m.lock[t] THEN timed \ {t} ELSE timed
      BY <1>3, <2>1 DEF ServiceLock, Timing
    <2>3. m' \in Managers /\ Counted(m') /\ m'.timer = T /\ m'.lock = l.lock
      <3>1. T \in SUBSET Tokens /\ Counted(l)
        BY <1>0, <2>1, CountedSame
      <3> HIDE DEF T
      <3>2. /\ Timing(l, T) \in Managers /\ Counted(Timing(l, T)) /\ Timing(l, T).timer = T
            /\ Timing(l, T).lock = l.lock
        BY <3>1, TimingCounts
      <3> QED BY <2>2, <3>2, Zenon
    <2>4. ProxyInv'
      <3>1. timed' \subseteq Tokens
        BY <1>0, <2>2
      <3> QED BY <1>0, <2>2, <2>3, <3>1, ProxyInvStep
    <2>5. ASSUME TimedIsTimed PROVE TimedIsTimed'
      <3> SUFFICES ASSUME NEW x \in timed', x \in Live(m') PROVE x \in m'.timer \cup due'
        BY DEF TimedIsTimed
      <3>1. CASE x = t /\ timeout
        BY <2>3, <3>1
      <3>2. CASE ~(x = t /\ timeout)
        <4>1. x \in timed /\ x \in Tokens /\ (x = t => l.lock[t] = m.lock[t])
          BY <1>0, <2>2, <3>2
        <4>2. x \in Live(m)
          BY <1>0, <2>1, <2>3, <4>1 DEF Live
        <4> QED BY <2>2, <2>3, <2>5, <4>1, <4>2 DEF TimedIsTimed
      <3> QED BY <3>1, <3>2
    <2> QED BY <2>4, <2>5
  <1>4. ASSUME NEW t \in Tokens, NEW ok \in UnholdAnswers, ServiceUnLock(t, ok) \/ ForceUnLockByTypes(t, ok)
        PROVE  Goal
    <2>0. ok \in BOOLEAN /\ (~UnholdMayFail => ok)
      BY DEF UnholdAnswers
    <2>1. /\ UnLockByToken(t, ok) /\ due' = due /\ asleep' = asleep /\ forceTimer' = forceTimer
          /\ toUnlock' \subseteq toUnlock /\ timed' = timed
      BY <1>4 DEF ServiceUnLock, ForceUnLockByTypes
    <2>2. /\ m' \in Managers /\ Counted(m') /\ m'.timer = m.timer \ {t} /\ todo' = {}
          /\ ok => Live(m') \subseteq Live(m) \ {t}
      BY <1>0, <2>0, <2>1, UnLockByTokenCounts
    <2>3. ProxyInv'
      BY <1>0, <2>1, <2>2, ProxyInvStep
    <2>4. ASSUME ~UnholdMayFail, TimedIsTimed PROVE TimedIsTimed'
      BY <2>0, <2>1, <2>2, <2>4, TimedStep
    <2> QED BY <2>3, <2>4
  <1>5. ASSUME NEW t \in Tokens, NEW ok \in BOOLEAN, ReleaseRunningLock(t, ok) \/ ForceUnLock(t, ok)
        PROVE  Goal
    <2>1. PICK w \in Managers :
             /\ Counted(w) /\ w.timer = m.timer /\ Live(w) \subseteq Live(m)
             /\ m' = [ ReleaseLock(w, t, ok) EXCEPT !.timer = @ \ {t} ]
      <3>1. CASE ReleaseRunningLock(t, ok)
        BY <1>0, <3>1 DEF ReleaseRunningLock
      <3>2. CASE ForceUnLock(t, ok)
        <4>1. Kept(m, UnLock(m, t, t, ok))
          BY <1>0, UnLockCounts
        <4> QED BY <3>2, <4>1 DEF ForceUnLock, Kept
      <3> QED BY <1>5, <3>1, <3>2
    <2>2. /\ m' \in Managers /\ Counted(m') /\ m'.timer = w.timer \ {t}
          /\ Live(m') \subseteq Live(w) \ {t}
      <3>1. PICK q \in Managers :
              /\ q = Timing(ReleaseLock(w, t, ok), ReleaseLock(w, t, ok).timer \ {t})
              /\ Counted(q) /\ q.timer = w.timer \ {t} /\ Live(q) \subseteq Live(w) \ {t}
        BY <2>1, ReleasedCounts
      <3>2. m' = q
        BY <2>1, <3>1 DEF Timing
      <3> QED BY <3>1, <3>2, Zenon
    <2>3. /\ todo' = {} /\ asleep' = asleep /\ due' = due \ {t} /\ timed' = timed \ {t}
          /\ forceTimer' = forceTimer /\ toUnlock' = toUnlock
      BY <1>5 DEF ReleaseRunningLock, ForceUnLock, Forget
    <2>4. ProxyInv'
      <3>1. due' \subseteq Tokens /\ timed' \subseteq Tokens
        BY <1>0, <2>3
      <3> QED BY <1>0, <2>2, <2>3, <3>1, ProxyInvStep
    <2>5. ASSUME TimedIsTimed PROVE TimedIsTimed'
      <3>1. Live(m') \subseteq Live(m) \ {t} /\ m'.timer = m.timer \ {t}
        BY <2>1, <2>2
      <3> QED BY <2>3, <2>5, <3>1, TimedStep
    <2> QED BY <2>4, <2>5
  <1>6. ASSUME NEW t \in Tokens, NEW ok \in UnholdAnswers, TimerTask(t, ok) PROVE Goal
    <2>0. ok \in BOOLEAN /\ (~UnholdMayFail => ok)
      BY DEF UnholdAnswers
    <2> DEFINE T == m.timer \ {t}
               w == Timing(m, T)
               v == UpdateWorkSource(w, t, {}, ok)
    <2>1. w \in Managers /\ Counted(w) /\ w.timer = T /\ w.lock = m.lock
      <3>1. T \in SUBSET Tokens
        BY <1>0
      <3> HIDE DEF T
      <3> QED BY <1>0, <3>1, TimingCounts
    <2>2. /\ m' = IF Registered(m, t) THEN UnLock(v, t, t, ok) ELSE v
          /\ todo' = {} /\ due' = due \ {t} /\ asleep' = asleep /\ timed' = timed
          /\ forceTimer' = forceTimer /\ toUnlock' = toUnlock
      BY <1>6 DEF TimerTask, Timing
    <2> HIDE DEF w
    <2>3. Kept(w, v) /\ SameLocks(w, v)
      BY <2>0, <2>1, UpdateKeeps
    <2> HIDE DEF v
    <2>4. /\ Kept(v, UnLock(v, t, t, ok))
          /\ ok => UnLock(v, t, t, ok).lock = [ v.lock EXCEPT ![t] = "DISABLE" ]
      BY <2>0, <2>3, UnLockCounts DEF Kept
    <2>5. /\ m' \in Managers /\ Counted(m') /\ m'.timer = m.timer \ {t}
          /\ ok => Live(m') \subseteq Live(m) \ {t}
      <3>0. Live(w) = Live(m)
        BY <2>1 DEF Live
      <3>1. CASE Registered(m, t)
        <4>1. m' = UnLock(v, t, t, ok)
          BY <2>2, <3>1
        <4>2. Kept(v, m') /\ (ok => m'.lock = [ v.lock EXCEPT ![t] = "DISABLE" ])
          BY <2>4, <4>1, Zenon
        <4>3. v.lock \in [Tokens -> LockStates]
          BY <2>3 DEF Kept, Managers
        <4>4. ok => t \notin Live(m')
          BY <4>2, <4>3 DEF Live
        <4> QED BY <2>1, <2>3, <3>0, <4>2, <4>4 DEF Kept
      <3>2. CASE ~Registered(m, t)
        <4>1. m' = v
          BY <2>2, <3>2
        <4>2. Kept(w, m')
          BY <2>3, <4>1, Zenon
        <4>3. t \notin Live(m)
          BY <3>2 DEF Live, Registered
        <4> QED BY <2>1, <3>0, <4>2, <4>3 DEF Kept
      <3> QED BY <3>1, <3>2
    <2>6. ProxyInv'
      <3>1. due' \subseteq Tokens
        BY <1>0, <2>2
      <3> QED BY <1>0, <2>2, <2>5, <3>1, ProxyInvStep
    <2>7. ASSUME ~UnholdMayFail, TimedIsTimed PROVE TimedIsTimed'
      BY <2>0, <2>2, <2>5, <2>7, TimedStep
    <2> QED BY <2>6, <2>7
  <1>7. ASSUME NEW t \in Tokens, NEW S \in SUBSET Procs, NEW ok \in BOOLEAN, ServiceUpdateWorkSource(t, S, ok)
        PROVE  Goal
    <2>1. /\ m' = UpdateWorkSource(m, t, S, ok) /\ todo' = {} /\ due' = due /\ asleep' = asleep
          /\ timed' = timed /\ forceTimer' = forceTimer /\ toUnlock' = toUnlock
      BY <1>7 DEF ServiceUpdateWorkSource
    <2>2. Kept(m, m')
      <3>1. Kept(m, UpdateWorkSource(m, t, S, ok))
        BY <1>0, UpdateKeeps
      <3> QED BY <2>1, <3>1, Zenon
    <2>3. ProxyInv'
      BY <1>0, <2>1, <2>2, ProxyInvStep DEF Kept
    <2> QED BY <2>1, <2>2, <2>3 DEF Kept, TimedIsTimed
  <1>8. ASSUME NEW p \in Procs, NEW b \in BOOLEAN, ProxyRunningLock(b, p) PROVE Goal
    <2>1. todo' \subseteq LoopSteps /\ \A x \in todo' : Registered(m, x.t)
      <3>1. OwnedBy(p) \in SUBSET Tokens /\ NotOffload \in SUBSET Tokens
        BY DEF OwnedBy, NotOffload
      <3> QED BY <1>8, <3>1, LoopsAreTyped DEF ProxyRunningLock, IncreaseProxyCnt, DecreaseProxyCnt
    <2>2. UNCHANGED << m, asleep, due, forceTimer, toUnlock, timed >>
      BY <1>8 DEF ProxyRunningLock
    <2> QED BY <1>0, <2>1, <2>2
            DEF ProxyInv, TypeOK, ProxyCountMatches, Counted, Proxied, Registered, TimedIsTimed, Live
  <1>9. ASSUME ResetRunningLocks PROVE Goal
    <2>1. todo' \subseteq LoopSteps /\ \A x \in todo' : Registered(m, x.t)
      <3>1. \A p \in Procs : OwnedBy(p) \in SUBSET Tokens
        BY DEF OwnedBy
      <3> QED BY <1>9, <3>1, LoopsAreTyped DEF ResetRunningLocks
    <2>2. UNCHANGED << m, asleep, due, forceTimer, toUnlock, timed >>
      BY <1>9 DEF ResetRunningLocks
    <2> QED BY <1>0, <2>1, <2>2
            DEF ProxyInv, TypeOK, ProxyCountMatches, Counted, Proxied, Registered, TimedIsTimed, Live
  <1>10. ASSUME NEW x \in todo, NEW ok \in BOOLEAN, Iterate(x, ok) PROVE Goal
    <2>1. /\ m' = LoopBody(m, x, ok) /\ todo' = todo \ {x}
          /\ UNCHANGED << asleep, due, forceTimer, toUnlock, timed >>
      BY <1>10 DEF Iterate
    <2>2. Kept(m, m') /\ SameLocks(m, m')
      <3>1. x \in LoopSteps /\ Registered(m, x.t)
        BY <1>0
      <3>2. Kept(m, LoopBody(m, x, ok)) /\ SameLocks(m, LoopBody(m, x, ok))
        BY <1>0, <3>1, LoopBodyCounts
      <3> QED BY <2>1, <3>2, Zenon
    <2>3. m' \in Managers /\ Counted(m') /\ m'.timer = m.timer /\ Live(m') \subseteq Live(m)
      BY <2>2 DEF Kept
    <2>4. \A y \in todo' : Registered(m', y.t)
      <3>1. \A y \in todo : y.t \in Tokens
        BY <1>0 DEF LoopSteps
      <3> QED BY <1>0, <2>1, <2>2, <3>1 DEF SameLocks
    <2>5. ProxyInv'
      BY <1>0, <2>1, <2>3, <2>4 DEF ProxyInv, TypeOK, ProxyCountMatches, Counted, Proxied, Registered
    <2> QED BY <2>1, <2>3, <2>5 DEF TimedIsTimed, Live
  <1>11. ASSUME PowerStateChanges \/ OnReceiveEvent \/ ForceSleepReleaseLock PROVE Goal
    <2>1. UNCHANGED << m, todo, due, timed >> /\ asleep' \in BOOLEAN /\ forceTimer' \in BOOLEAN
      BY <1>0, <1>11 DEF PowerStateChanges, OnReceiveEvent, ForceSleepReleaseLock, HandleEnterForceSleep,
         HandleExitForceSleep
    <2>2. toUnlock' \subseteq Tokens
      BY <1>0, <1>11 DEF PowerStateChanges, OnReceiveEvent, ForceSleepReleaseLock, Enabled
    <2> QED BY <1>0, <2>1, <2>2
            DEF ProxyInv, TypeOK, ProxyCountMatches, Proxied, Registered, TimedIsTimed, Live
  <1>12. CASE UNCHANGED vars
    BY <1>0, <1>12 DEF vars, ProxyInv, TypeOK, ProxyCountMatches, Proxied, Registered, TimedIsTimed, Live
  <1>13. /\ HoldAnswers \subseteq BOOLEAN /\ UnholdAnswers \subseteq BOOLEAN
         /\ \A x \in todo : LoopAnswers(x) \subseteq BOOLEAN
    BY DEF HoldAnswers, UnholdAnswers, LoopAnswers
  <1> HIDE DEF Goal
  <1>14. ASSUME NEW t \in Tokens,
           \/ CreateRunningLock(t) \/ TimerFires(t)
           \/ \E ok \in HoldAnswers : \E timeout \in BOOLEAN : ServiceLock(t, timeout, ok)
           \/ \E ok \in UnholdAnswers :
                 \/ ServiceUnLock(t, ok) \/ ReleaseRunningLock(t, ok) \/ ForceUnLock(t, ok)
                 \/ TimerTask(t, ok) \/ ForceUnLockByTypes(t, ok)
           \/ \E ok \in HoldAnswers \cap UnholdAnswers, S \in SUBSET Procs : ServiceUpdateWorkSource(t, S, ok)
         PROVE  Goal
    BY <1>1, <1>2, <1>3, <1>4, <1>5, <1>6, <1>7, <1>13, <1>14
  <1>15. ASSUME NEW x \in todo, NEW ok \in LoopAnswers(x), Iterate(x, ok) PROVE Goal
    BY <1>10, <1>13, <1>15
  <1>16. ASSUME Next PROVE Goal
    <2>1. CASE \E p \in Procs : ProxyRunningLock(TRUE, p) \/ ProxyRunningLock(FALSE, p)
      BY <1>8, <2>1
    <2>2. CASE \E x \in todo : \E ok \in LoopAnswers(x) : Iterate(x, ok)
      BY <1>15, <2>2
    <2> QED BY <1>9, <1>11, <1>14, <1>16, <2>1, <2>2, Zenon DEF Next
  <1> QED BY <1>12, <1>16 DEF Goal

\* The types of the running locks, with proxied locks, whatever the HDI answers.
THEOREM LockTypesAreKept == Spec => []TypeOK
  <1>1. ProxyInv /\ [Next]_vars => ProxyInv'
    BY ProxyInvNext
  <1>2. ProxyInv => TypeOK
    BY DEF ProxyInv
  <1> QED BY <1>1, <1>2, ProxyInvInit, PTL DEF Spec

\* RunningLockProxy: the number of proxied work sources it keeps of a lock is the number of flags it
\* has set, at every step of its loops, in whatever order they visit the locks, with UnLock, time-outs,
\* releases and deaths in between and whatever the HDI answers.
THEOREM ProxyCountsAreRight == Spec => []ProxyCountMatches
  <1>1. ProxyInv /\ [Next]_vars => ProxyInv'
    BY ProxyInvNext
  <1>2. ProxyInv => ProxyCountMatches
    BY DEF ProxyInv
  <1> QED BY <1>1, <1>2, ProxyInvInit, PTL DEF Spec

\* RunningLockTimerHandler: a lock taken with a time-out has a timer, or a callback that waits for
\* lockMutex_, as long as it is enabled, also when a proxy took it away and gave it back in between.
\* The HDI has to give locks back: otherwise the callback is spent and the lock stays.
THEOREM NoTimeOutIsLost == ASSUME ~UnholdMayFail PROVE Spec => []TimedLockHasTimer
  <1>1. ProxyInv /\ TimedIsTimed /\ [Next]_vars => (ProxyInv /\ TimedIsTimed)'
    BY ProxyInvNext
  <1>2. ProxyInv /\ TimedIsTimed => TimedLockHasTimer
    BY DEF ProxyInv, TypeOK, TimedIsTimed, TimedLockHasTimer, Live
  <1> QED BY <1>1, <1>2, ProxyInvInit, PTL DEF Spec

===============================================================================
