----------------------------- MODULE MCComponents -----------------------------
(***************************************************************************)
(* The constants of Components that a configuration file cannot spell.     *)
(***************************************************************************)
EXTENDS Components

\* What the modes of power_mode_config.xml do to two settings: s1 is read back and restored, s2
\* is only written.
ModePolicy ==
    LET none == [ value |-> -2, recover |-> FALSE ]
        set(v) == [ value |-> v, recover |-> TRUE ]
    IN  [ NORMAL |-> [ s1 |-> none, s2 |-> [ value |-> 0, recover |-> FALSE ] ],
          POWER_SAVE |-> [ s1 |-> set(1), s2 |-> none ],
          EXTREME_POWER_SAVE |-> [ s1 |-> set(1), s2 |-> set(1) ],
          CUSTOM_POWER_SAVE |-> [ s1 |-> set(0), s2 |-> none ],
          PERFORMANCE |-> [ s1 |-> none, s2 |-> none ] ]

\* The configuration of the suspend sources, and objects that a row of the settings may hold.
Ok(item) == [ state |-> "ok", item |-> item ]
SourceFile == Ok([ powerkey |-> 1, timeout |-> 1, tp_cover |-> 1 ])
SourceTexts ==
    { SourceFile, [ state |-> "bad", item |-> << >> ], Ok(<< >>),
      Ok([ powerkey |-> 9, other |-> 2, switch |-> 2 ]), Ok([ timeout |-> 2 ]) }

\* On the mains the screen does not go off by itself.
SupplyOffTime == [ AC |-> -1, DC |-> 3 ]

===============================================================================
