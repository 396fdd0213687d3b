\* A note and a file in a folder, three sets of rules of which one hides the
\* folder, two contents, and two things that happen besides what the runs do:
\* edits, changes of another device, of the rules, or failed runs.
CONSTANTS
    x = x
    y = y
    Absent = Absent
    Files <- TwoFiles
    Vaults <- TwoVaults
    Config <- ConfigDir
    Own <- OwnDir
    Settings <- ThreeSettings
    ConfigFiles = {"app"}
    Appearance = {"themes", "snippets"}
    PluginFiles = {"main"}
    Contents = {x, y}
    MaxEvents = 2
SPECIFICATION FairSpec
INVARIANTS
    TypeOK
    CacheHonest
PROPERTIES
    DeletionIsReal
    EditsArrive
