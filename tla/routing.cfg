\* Two nodes reconfigured through POST /cfg/router and one API client; 3-bit account ids.
CONSTANTS
    h1 = h1
    h2 = h2
    NoHost = NoHost
    NoPost = NoPost
    W = 3
    Hosts <- MCHosts
    Accounts <- MCAccounts
    InitLists <- MCInitLists
    AdminLists <- MCAdminLists
    Selves <- MCSelves
SPECIFICATION Spec
INVARIANT LookupMatchesSpec
PROPERTY RerouteConverges
