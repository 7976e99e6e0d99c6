SPECIFICATION Spec
CONSTANTS
    r1 = r1  r2 = r2  t1 = t1  t2 = t2  a = a  x = x
    Nobody = Nobody  Absent = Absent  Empty = Empty  Torn = Torn
    Requests = {r1, r2}
    Trainers = {t1, t2}
    Tenants = {a}
    Models = {x}
    Owner <- OneModel
    MaxTrainings = 2
    MaxClients = 2
SYMMETRY RouteSymmetry
INVARIANTS TypeOK QuietPairMatches CalmArtifactsLoad ListedIsFound
PROPERTIES ClientsOnlyAtStart
