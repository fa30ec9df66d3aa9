\* A server with a request, a stop, a crash and a write from the command line, and two
\* updates with two failing renames and a kill.
CONSTANTS
    Updaters = {u1}
    Releases <- SmallReleases
    Dev = Dev
    Absent = Absent
    Torn = Torn
    MaxUpdates = 2
    MaxFailures = 2
    MaxKills = 1
    Requests = {r1}
    Cli = Cli
    MaxCli = 1
    MaxStops = 1
    MaxCrashes = 1
SPECIFICATION Spec
INVARIANTS TypeOK BinarySurvives AnswersTell ReadsAreFresh
PROPERTIES NeverOlder StopLosesNothing ServesNoOlder StopEnds ServiceReturns
