CONSTANTS
    tables = tables
    slides = slides
    plot = plot
    render = render
    u1 = u1
    u2 = u2
    Packages = {tables, slides}
    Remotes = {slides}
    Tools = {plot, render}
    Manifests <- MCManifests
    Skills = {tables}
    Requests = {u1, u2}
    Startup = Startup
    None = None
    Gone = Gone
    MaxScopes = 5
    MaxEdits = 1
    MaxFaults = 1
    MaxBoots = 2
    MaxMishaps = 2
CONSTRAINT HalvesAreForReads
SYMMETRY RequestSymmetry
SPECIFICATION Spec
CHECK_DEADLOCK FALSE
INVARIANTS
    RegistryAgrees
    SettingsTell
    ReadIsMounted
