SPECIFICATION Spec
CONSTANT WaitMayTimeOut = FALSE
INVARIANT InterruptingPressIsIgnored
