SPECIFICATION Spec
CONSTANTS
  None = None
  MaxTasks = 2
  x1 = x1  x2 = x2  x3 = x3  y1 = y1  y2 = y2
  NoticeIds = {x1, x2}
  Owners = {x1, x2}
  Endpoints = {y1, y2}
  ContractIds = {x1}
  AppIds = {x1, x2}
  SlotIds = {y1}
  RoomIds = {y2}
  Dorms = {y1, y2}
  QueueIds = {x1, x2}
  PlaceIds = {y1, y2}
  Tenants = {x1, x2}
  Houses = {y1, y2}
  Persons = {x1, x2}
  Candidates = {x1, x2}
  Dormitories = {y1, y2}
  MaxTicks = 1
  Images = {x1, x2}
  Papers = {x1, x2}
  Grounds = {y1}
  Documents = {x1}
  Requests = {x1, x2}
  Destinations = {y1, y2}
  Chats = {x1, x2}
  Audiences = {x1, x2}
  MaxTurns = 2
  MaxAsks = 3
SYMMETRY Symmetry
INVARIANT ChairGoesWithMembership
CHECK_DEADLOCK FALSE
