CONSTANTS
    n1 = n1  n2 = n2  n3 = n3  d1 = d1  d2 = d2  a1 = a1  l1 = l1  l2 = l2
    Names = {n1, n2, n3}
    Domains = {d1, d2}
    Accounts = {a1}
    RefKeys = {}
    Literals = {l1, l2}
    NoAccount = NoAccount  NoKey = NoKey  NoName = NoName  NoFile = NoFile
    NoExit = NoExit  Killed = Killed  OptionInfo = OptionInfo
    Entries <- MCEntries
    ExportFiles <- MCOneFile
    Validity = 3
    RenewBefore = 2
    WarnDays = 2
    ForceRenewDays = 1
    MaxDay = 3
    MaxGen = 2
    InitLive <- MCNoLive

SPECIFICATION Spec
PROPERTY FixAttemptsAll
