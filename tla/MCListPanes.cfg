CONSTANTS
  Items = {1, 2, 3}
  MaxFiles = 2
  None = None
  Rowable <- MCRowable
  Hidden = {1}
  Mine = {2}
  WithSolver = {2}
SPECIFICATION Spec
INVARIANTS OneUpload UploadIsKept
PROPERTIES ActsOnShown HighlightStays
