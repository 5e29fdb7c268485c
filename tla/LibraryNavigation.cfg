SPECIFICATION Spec
CONSTANTS
  game = game  app = app
  Index <- MCIndex
  Type <- MCType
  Listing <- MCListing
  CategoryOrder <- MCCategories
  None = None
INVARIANTS TypeOK ActionIsThere RoundTrips
PROPERTIES StartsWhatWasAsked RefreshKeepsPackage
