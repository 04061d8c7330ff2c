CONSTANTS
  McpTools = {t1, t2}
  McpLegacy = {t1}
  McpDefault = {t1, t2}
  McpManagers = {u1, u2}
  McpTargets = {g1}
  McpTemps = {x1}
  McpMaxChanges = 3
SPECIFICATION McpSpec
INVARIANTS McpRemovalNarrows
CHECK_DEADLOCK FALSE
