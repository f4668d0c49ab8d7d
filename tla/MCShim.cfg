CONSTANTS
    Procs = {p1}
    Depth = 2
    Sources = 2
    Selectors <- TheSelectors
    Configs <- TheConfigs
    Published <- ThePublished
    Live <- TheLive
    Default = "temurin"
    Proprietary = {"oracle"}
SPECIFICATION Spec
INVARIANTS CascadeIsNearest RunsThePin RankDecides
PROPERTIES LazyConfig ReportIsWhatRuns NoTermsThroughTheShim InstalledIsFound SuggestionResolves
