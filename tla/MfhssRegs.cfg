CONSTANTS
  shell = shell
  tool = tool
  Users = {shell, tool}
  Files = {"ce"}
  Values = {{}}
  Access <- MCAccess
SPECIFICATION RegFairSpec
INVARIANTS
  LinkFlagRight
  LastStoreHolds
PROPERTIES
  EventsHandled
