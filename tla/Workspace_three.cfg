SPECIFICATION Spec
CONSTANTS
  Window = {1, 2}
  Small = {1, 2}
  Large = {9}
  Markdown = {2}
  Busy = {1}
  MaxTabs = 3
INVARIANTS ActiveIsATab PreviewHasSource EditsAskedFirst
CHECK_DEADLOCK FALSE
