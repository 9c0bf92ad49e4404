CONSTANTS
  Tasks = {t1, t2}
  MaxCalls = 3
SPECIFICATION FairSpec
INVARIANTS TypeOK StaleExactlyWhenOvertaken NoOrphanedRequest SidecarNeverShadowsReadyService
PROPERTIES ImplementsRegister SleeperWakes
CHECK_DEADLOCK FALSE
