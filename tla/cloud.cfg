CONSTANTS
    prov1 = prov1  prov2 = prov2  mod1 = mod1  org_mod1 = org_mod1  key1 = key1  key2 = key2
    var1 = var1  var2 = var2  ed1 = ed1  ed2 = ed2  poll1 = poll1  poll2 = poll2  admin = admin
    None = None
    Providers = {prov1, prov2}
    Models = {mod1, org_mod1}
    Keys = {key1}
    Vars = {var1, var2}
    VarOf <- OneVar
    Short <- ShortNames
    Offers <- Offered
    Editors = {ed1, ed2}
    Pollers = {poll1, poll2}
    Admin = admin
    Disks <- FirstDisks
    Budgets <- EveryBudget
SPECIFICATION FairSpec
INVARIANTS Saved BothNames
PROPERTIES Converges
CHECK_DEADLOCK FALSE
