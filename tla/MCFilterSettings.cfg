\* scenes old and new, three changes amid updates, a picture of nine pixels
SPECIFICATION Spec
CONSTANTS
  None = None
  Height = 3
  Width = 3
  SavedSettings <- MCSavedSettings
  Edits <- MCEdits
  Shapings <- MCShapings
  Confidences = {0, 139, 255}
  MaxEdits = 3
  MaxFrames = 2
INVARIANTS
  SettingsSettle
  EditsSurvive
  MigrationKeepsModel
  NamedStylesSmooth
  ShapingKeepsOrder
