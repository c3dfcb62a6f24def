SPECIFICATION RecordsSpec
CONSTANTS
  grade = grade
  party = party
  company = company
  folder1 = folder1
  scheme = scheme
  bought = bought
  claimed = claimed
  route = route
  drop = drop
  cell = cell
  receipt = receipt
  NoRec = NoRec
  Grades = {grade}
  Parties = {party}
  Companies = {company}
  Folders = {folder1}
  Schemes = {scheme}
  Purchases = {bought}
  Claims = {claimed}
  Routes = {route}
  Diary = {drop}
  Day = Day
  Lines = {cell, receipt}
  Cells = {cell}
  Names <- NamesOf
  Pushes <- SomePushes
  Payments = {p1, p2}
  Vers = {1, 2}
  MaxRev = 5
  ClaimIds = {k1, k2}
  note1 = note1
  note2 = note2
  Notes = {note1, note2}
  Amount <- AmountOf
  Accrued = 2
  LastDate = 2
  Slots = {s1, s2}
  Values = {0, 1}
  truck = truck
  delivery = delivery
  adjust = adjust
  move = move
  item = item
  dayNote = dayNote
  rates = rates
  brand = brand
  oldApp = oldApp
  newApp = newApp
  Trucks = {truck}
  Deliveries = {delivery}
  Adjusts = {adjust}
  Moves = {move}
  Items = {item}
  DayNotes = {dayNote}
  Settings = {rates}
  Sheets = {brand}
  Gated = {truck, delivery, adjust, move, dayNote}
  Needs <- NeedsOf
  Devices = {oldApp, newApp}
  OldApps = {oldApp}
  Bodies = {1, 2}
  MaxRow = 3
INVARIANTS OrderSuffices FiledAlive GateSeesContent StatusTrue DaysAfterBaseline DiaryWhole DiaryGate
PROPERTIES  RefusalKeeps OldAppKeeps
