SPECIFICATION FairSpec
CONSTANTS
    home = home
    blog = blog
    linked = linked
    index = index
    login = login
    stray = stray
    seo = seo
    seoFile = seoFile
    seoAsset = seoAsset
    shop = shop
    shopFile = shopFile
    blogIndex = blogIndex
    SiteOrder <- Sites3
    Linked = {linked}
    MaxInstalls = 2
    WPFile <- AllFiles
    SiteOf <- MCSiteOf
    PartOf <- MCPartOf
    Stray = {stray}
    Executable <- MCExecutable
    PluginOrder <- MCPlugins
    Published = {seo, shop}
    MaxPlugins = 1
    CorePercent = 50
    PluginPercent = 50
    Path = {index, stray}
    Odd = {stray}
    BatchSize = 1
    Faults = {"probe", "prepare", "exit", "cut", "gate", "acted", "shield", "api", "unreadable"}
    MaxEdits = 1
    MaxFaults = 1
    Nothing = Nothing
INVARIANTS
    AnswersForItsScope
    BlamesOnlyWhatItSaw
    LegitimacyIsEarned
PROPERTIES
    ImplementsContract
    TurnEnds
