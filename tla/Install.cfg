CONSTANTS
  p1 = p1
  p2 = p2
  r1 = r1
  r2 = r2
  Procs <- MCProcs
  Repos <- MCRepos
  Nobody = nobody
  Hosts = {"codex", "claude_desktop", "copilot_agent", "pydantic_ai"}
  Unreadable = {"codex_hooks", "global_mcp"}
  Joined = {"codex_hooks"}
  MaxInstalls = 3
  MaxEdits = 1
SPECIFICATION Spec
INVARIANTS TheirsKept OneOfOurs NeverHalf RegistrationsKept
CHECK_DEADLOCK FALSE
