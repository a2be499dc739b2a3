CONSTANTS
  counter = counter
  lamp = lamp
  server = server
  control = control
  script = script
  nobody = nobody
  Objects <- TwoObjects
  Urls <- OneUrl
  Control = control
  Script = script
  Nobody = nobody
  MaxEngines = 2
  MaxJobs = 2
SPECIFICATION FairSpec
PROPERTY QuitTerminates
CHECK_DEADLOCK FALSE
