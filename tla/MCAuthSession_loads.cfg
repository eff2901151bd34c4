CONSTANTS
    u1 = u1  u2 = u2
    Users <- MCUsers
    NoUser = NoUser
    MaxLogins = 2
SPECIFICATION FairSpec
PROPERTY ProviderLoads
