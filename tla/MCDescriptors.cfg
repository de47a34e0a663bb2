SPECIFICATION Spec
CONSTANTS
  shell = shell
  Procs = {shell, c1, c2, c3}
  NULL = NULL
  MAX_FILES_OPEN_PER_PROC = 6
  MAX_FILE_OPEN = 5
  Pages = {1, 2}
INVARIANTS PipeCounted RingsOwned StdioCounted ShellRestored
