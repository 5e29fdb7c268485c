SPECIFICATION Spec
CONSTANTS
  first = first  moved = moved  store = store
  name = name  desc = desc  one = one  two = two
  r1 = r1  r2 = r2  r3 = r3  r4 = r4
  Slot = {first, moved, store}
  Field = {name, desc}
  Text = {one, two}
  Blank = Blank
  Release = {r1, r2, r3, r4}
  MenuOf <- MCMenuOf
  StoreMenu <- MCStoreMenu
  NoMenu = NoMenu  NoEntry = NoEntry  None = None
  MaxEdits = 2
INVARIANTS TypeOK NoOrphan
PROPERTIES OwnedIsListed EditedSurvives ChangeIsReported
