\* One fork with all that can happen to it, up to four injected messages.
SPECIFICATION FairSpec
CONSTANT MaxMessage = 4
INVARIANTS InjectionOrder NoLostWakeup RowShowsTheEnd ReportFollowsRow
PROPERTIES EndIsFinal AbortEnds
CHECK_DEADLOCK FALSE
