\* A reader who follows the cursors with pages of every kind of size, from a
\* negative one to one above the cap, and a balance view, while four lines of two
\* dates are posted: one more than the largest page.
SPECIFICATION Spec
CONSTANTS
    reader = reader
    viewer = viewer
    w1 = w1
    w2 = w2
    w3 = w3
    w4 = w4
    None = None
    Readers = {reader}
    Viewers = {viewer}
    Posters = {w1, w2, w3, w4}
    LineIds = {1, 2, 3, 4}
    LastDate = 1
    Limits <- PageSizes
    ContractLimits = {1, 2, 3}
    PageCap = 2
    MaxLost = 1
INVARIANTS
    TypeOK
    PagesInOrder
    OnlyCursorLinesMissing
    ViewsAreAudited
SYMMETRY Symmetry
CHECK_DEADLOCK FALSE
