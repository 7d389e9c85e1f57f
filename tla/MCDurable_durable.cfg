\* tickets.json under two windows: three edits, one busy rename each, two deaths, two
\* damages and a deletion.  Nothing more may happen once every edit is made and every bound used up.
SPECIFICATION Spec
CONSTANTS
  h1 = h1
  h2 = h2
  Hosts = {h1, h2}
  MaxEdits = 3
  KeepsBackup = TRUE
  MaxRetries = 1
  MaxCrashes = 2
  MaxDamages = 2
  MaxDeletes = 1
INVARIANTS
  OwedIsRead
  AtMostLastSave
PROPERTIES
  ImplementsSharedDocument
CHECK_DEADLOCK FALSE
