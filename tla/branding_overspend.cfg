\* One upload at a time fits into the plan; one PATCH of the branding overlaps.
SPECIFICATION RowSpec
CONSTANTS
    Tenant = {1}
    Host = {11}
    Nobody = 0
    Absent = 9
    Lookup = {1}
    Saver = {1}
    Limit <- MCLimit
    MaxOwed = 2
INVARIANTS NoOverspend
