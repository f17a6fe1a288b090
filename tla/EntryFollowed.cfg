SPECIFICATION Spec
CONSTANTS
    Locks = {lock1, lock2}
    Connects = {connect}
    PageSize = 2
    Settings <- Lives
    Sensors = {s1, s2}
    Names = {a, b}
    None = None
    lock1 = lock1
    lock2 = lock2
    connect = connect
    s1 = s1
    s2 = s2
    a = a
    b = b
INVARIANTS
    DevicesShown
    AddedOnce
    TitlesFollow
PROPERTIES
    FoundThroughout
    LinkedToConnect
    LinksTakeEffect
    IssuesSettle
