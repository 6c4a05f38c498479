SPECIFICATION FairSpec
CONSTANTS
    s1 = s1
    s2 = s2
    c0 = c0
    c1 = c1
    w0 = w0
    w1 = w1
    None = None
    Text = Text
    Used <- MCUsed
    Visited <- MCVisited
    Slots <- MCSlots
    Courses <- MCCourses
    Weeks <- MCWeeks
    Existing <- MCExisting
    RoleChoices <- MCRoleChoices
INVARIANTS
    TypeOK
    ListsAreFresh
    ToastsAreTrue
    
    MaterialsAreKept
PROPERTIES
    TextsStoredOnce
    LoadingEnds
