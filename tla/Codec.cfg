SPECIFICATION Spec
CONSTANTS
    Radix = 4
    Words <- MCWords
    Pressures <- MCPressures
    NaN = nan
INVARIANTS RoundTrip Displayed
