SPECIFICATION OnboardingSpec

CONSTANTS
    t1 = t1
    g1 = g1
    g2 = g2
    Tabs <- MCTabs
    Flows = {"restore"}
    Fresh <- MCFresh
    OldKey = OldKey
    Typo = Typo
    NoKey = NoKey

SYMMETRY KeySymmetry

PROPERTIES
    FailedRestoresAreShown
