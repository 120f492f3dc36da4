SPECIFICATION RegSpec
CONSTANTS
  Roots <- MCRoots
  Cwds <- MCCwds
  CommonDir <- MCCommonDir
  Transcripts = {t1}
  Registrars = {c1}
  MaxIds = 2
  MaxRestarts = 2
PROPERTY NewSessionsFound
CHECK_DEADLOCK FALSE
