SPECIFICATION SpecMC
CONSTANTS
  None = None
  PageCount = 3
  Contents <- ContentsMC
  Lengths <- LengthsMC
  Bodies <- BodiesMC
  Papers <- PapersMC
  Pictures <- PicturesMC
  PageViews <- PageViewsMC
  PictureViews <- PictureViewsMC
  CanvasViews <- CanvasViewsMC
  Positions <- PositionsMC
  Profiles <- ProfilesMC
  CanvasSettings <- CanvasSettingsMC
  Lists <- ListsMC
  Systems <- SystemsMC
  Versions <- VersionsMC
INVARIANT
  LengthAnnounced
  ContentFramed
  VisibleDrawn
  PreviewIsPrint
  UpdateChosen
  CacheTrue
  TornFile
  SelectionSurvives
