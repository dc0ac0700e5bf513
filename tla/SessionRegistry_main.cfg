CONSTANTS
  Null = Null
  Connected = {"git", "web"}
  Slots = {1, 2, 3}
  Scenarios <- MainScenarios
SPECIFICATION Spec
INVARIANTS RegistryInv TreeWhole RunsAsAnswered AskedIsShown ReopenKeepsSettings
