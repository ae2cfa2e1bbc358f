CONSTANTS
  Handles = {h1, h2, h3, h4}
  FailedHandle = none
  LightStates <- MCLightStates
  MaxFile <- MCMaxFile
  BacklightColors <- MCBacklightColors
  Calls = {c1, c2}
  Features = {f1, f2}
  Mediator = mediator
  MaxQueue = 2
  MaxPending = 2
SYMMETRY Symmetry
SPECIFICATION ServicesSpec
INVARIANTS PowerTypeOK HintListExact ListBounded LaunchLockOwned
INVARIANTS LedShowsFirst BacklightExact
INVARIANTS TransmitTypeOK ModemFollows SensorsOff EarpieceOnly
