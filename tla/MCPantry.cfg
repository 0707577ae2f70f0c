SPECIFICATION Spec
CONSTANTS
    Requests = {p1, p2}
    Lines <- MCLines
    Items <- MCItems
    Recipes = {"r1", "r2"}
    Articles = {"a", "b"}
    MaxQuantity = 2
    MaxPlans = 2
    FirstStock <- MCFirstStock
    FirstList <- MCFirstList
    FirstIngredients <- MCFirstIngredients
    Mixes <- MCMixes
    None = None
SYMMETRY MCSymmetry
INVARIANTS
    NoUpdateLost
    ReceivedOnce
    PlanningEndsOnce
    NoDeadlock
CHECK_DEADLOCK FALSE
