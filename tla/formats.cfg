SPECIFICATION SelectorSpec
CONSTANTS
    Formats <- MCFormats
    Options <- MCOptions
    MaxFormats = 3
INVARIANTS
    
    FailuresOfOthersAreHarmless
