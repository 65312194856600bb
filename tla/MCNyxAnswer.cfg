SPECIFICATION StackSpec
CONSTANTS
    Listeners = {l1, l2}
    IndiConns = {i1, i2}
    MqttConns = {m1, m2}
    StreamConns = {s1, s2}
    Topics = {t1, t2}
    Null = Null
INVARIANTS
    AnswerReachesAsker
