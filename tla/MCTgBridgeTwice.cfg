CONSTANTS
  Button = button
  Other = {offer}
  MaxStarts = 3
SPECIFICATION Spec
PROPERTY StartSparesRunning
