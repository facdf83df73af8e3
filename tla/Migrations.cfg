\* Three operators upgrade and downgrade one database, are killed and refused.
SPECIFICATION FairSpec
CONSTANTS
    ana = ana
    ben = ben
    eva = eva
    Runners = {ana, ben, eva}
INVARIANTS TypeOK SchemaMatchesVersion
PROPERTIES RefusedOnlyIfOvertaken RunsEnd
