\* The pages of the browser, one at a time.
CONSTANTS
  MaxCalls = 1
  MaxOverlap = 2
  MaxRows = 2
  Task = {1, 2}
  ProjectOf <- MCProjectOf
  Text <- MCText
  Word <- MCWord
  InitialSegments <- MCInitialSegments
  UploadFile = {"f", "g"}
  SubmitInput <- MCSubmitInput
  JudgeInput <- MCJudgeInput
  Doc = {1, 2}
  Item = {1, 2}
  No = {1}
  Separator = {"-", "_"}
  SegmentKey = {""}
  NewKey <- MCNewKey
  DEFAULT_SEGMENTS <- MCSegments
  ServerDefault <- MCSegments
  MaxSegments = 1
  Role = {"s", "c", "d"}
  System = {"s"}
  OrgOf <- MCOrgOf
  Permission = {"x"}
  Name = {"n"}
  Blank = ""
  Watched <- MCWatched
  Container = {"c"}
  Request = {"r"}
  File = {"f"}
  Revision = {"1", "2"}
  PageSize = 1
  ListedContainer = {"c", "d"}
  Project = {"p", "q"}
  Typed <- MCTyped
SPECIFICATION Spec
INVARIANTS
  PagesTypeOK
  AnnouncedIsRecorded
  StoredAsSubmitted
  DoneIsStored
  OnlyTypesDiffer
  EditKeepsItsItem
  OwnChangeIsFetched
  StaleClickKeepsItsWord
  ViewIsOfItsSelection
  UntouchedAsOpened
PROPERTIES
  SystemRolesStand
