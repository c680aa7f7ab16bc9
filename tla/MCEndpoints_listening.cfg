SPECIFICATION HelpersSpec
CONSTANTS
    NodeTexts = {}
    Listenings <- LoopbackListening
    SomeUrls = {}
    SomeAssigned <- AssignedUrls
    SomeSchemes <- ObjectSchemes
    SomeAuthorities <- ObjectAuthorities
    SomeHosts <- ObjectHosts
    SomeUsers <- ObjectUsers
    SomePorts = {0, 6543}
    SomePaths <- ObjectPaths
    SomeQueries <- ObjectQueries
    SomeRawQueries <- ObjectRawQueries
    SomeParameters <- ObjectParameters
    MaxUrlCalls = 2
    SomeIps = {}
    SomeOperands <- ObjectOperands
    SomeMasks <- ObjectMasks
    MaxIpCalls = 2
    BitAnd <- AndOfBits
    BitOr <- OrOfBits
    BitXor <- XorOfBits
INVARIANT ListensWhereTold
