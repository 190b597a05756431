\* Can a view of a html type be configured?
SPECIFICATION ConfigSpec
CONSTANTS
    ConfigNames <- MCConfigNames
    MaxConfigured = 2
INVARIANT HtmlViewsLoad
CHECK_DEADLOCK FALSE
