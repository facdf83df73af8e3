\* Three departments, two of which may share a name, two jobs and four employees.
SPECIFICATION Spec
CONSTANTS
    DepartmentFiles <- MCDepartmentFiles
    JobFiles <- MCJobFiles
    EmployeeFiles <- MCEmployeeFiles
    Sizes <- MCSizes
    MaxRows = 2
INVARIANTS
    TypeOK
    OnlyNegativeSizesLoseLines
    EveryHireCountedOnce
    MetricsAgree
    AboveMeanIsRelative
PROPERTIES
    ReferenceUploadsKeepMetrics
    CountsOnlyGrow
