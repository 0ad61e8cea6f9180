\* Two services; two runs of tools, one change of the host's file and of a form.
SPECIFICATION Spec
CONSTANTS
  HostTables <- MCHostTables
  MuxTables <- MCMuxTables
  Names = {"a", "b"}
  MaxRuns = 2
  MaxEdits = 1
INVARIANTS
  TypeOK
  SettingsSurvive
  SocketsAgree
  SavedFormRuns
  UsableServices
PROPERTIES
  SaveChangesOneService
CHECK_DEADLOCK FALSE
