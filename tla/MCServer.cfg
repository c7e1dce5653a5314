SPECIFICATION Spec
CONSTANTS
    d1 = d1
    d2 = d2
    Device = {d1, d2}
    Ip <- MCIp
    Name <- MCName
    Alias <- MCAlias
    Key <- MCKey
    Dest <- MCDest
    Texts = {t1, t2}
    Files = {f1}
    FileSize <- MCFileSize
    Oversize = {}
    Chunk = 2
    MaxId = 2
    EagerEof = TRUE
    None = None
    NConn = 3
CHECK_DEADLOCK FALSE
INVARIANTS EveryClientKept RegistryUnique OnLatestSession ReachesItsDevice CrashNeedsBadInput
PROPERTY ReloginResumes
