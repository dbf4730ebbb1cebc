\* Manifests of up to two streams, good ones and bad ones.
SPECIFICATION Spec
CONSTANTS
  Manifests <- ExampleManifests
  Duration = 2
  ipc_port = 5
  Others <- ExampleOthers
  is_mon = TRUE
  PONG_PORT_INC = 2
  U16 = 8
  initial_version = 1
  TIME_MAX = 4
  MaxTime = 3
INVARIANTS
  TypeOK
  OnlyManifestPanics
  EveryStreamStarted
  TimesAgree
\* The sender exits, or panics.
CHECK_DEADLOCK FALSE
