CONSTANTS
  Client = {installer, browser}
  Installer = installer
SPECIFICATION ServerSpec
INVARIANT FetchedMeansServed
PROPERTY BlockEnds
