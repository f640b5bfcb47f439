SPECIFICATION MonitoringSpec
CONSTANTS
    None = None
    h = h
    ip = ip
    n1 = n1
    n2 = n2
    Hosts = {h, ip}
    IPs = {ip}
    Node = {n1, n2}
    Specs <- SomeSpecs
    Secrets <- SomeSecrets
    Answers <- SomeAnswers
    Scenarios <- All
INVARIANTS TypesOK ImageFits
PROPERTIES QuestionsAreSpaced WritesSettle StatusTellsTheTruth HalfHourMeansDone IstioSettles ScriptsSettle InjectedPodsStart InstancesSettle
