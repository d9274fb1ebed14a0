CONSTANTS
    Requests = {r1}
    Mail = {m1, m2}
    None = None
    Absent = Absent
    Broken = Broken
    MaxBoots = 1
    InitFile = Absent
    InitAccounts = {k0}
SPECIFICATION Spec
PROPERTY MergeKeepsKey
CHECK_DEADLOCK FALSE
