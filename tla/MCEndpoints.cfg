SPECIFICATION HelpersSpec
CONSTANTS
    NodeTexts <- SomeNodes
    Listenings <- SomeListenings
    SomeUrls <- ObjectUrls
    SomeAssigned <- AssignedUrls
    SomeSchemes <- ObjectSchemes
    SomeAuthorities <- ObjectAuthorities
    SomeHosts <- ObjectHosts
    SomeUsers <- ObjectUsers
    SomePorts = {0, 6543}
    SomePaths <- ObjectPaths
    SomeQueries <- ObjectQueries
    SomeRawQueries <- ObjectRawQueries
    SomeParameters <- ObjectParameters
    MaxUrlCalls = 2
    SomeIps <- ObjectIps
    SomeOperands <- ObjectOperands
    SomeMasks <- ObjectMasks
    MaxIpCalls = 2
    BitAnd <- AndOfBits
    BitOr <- OrOfBits
    BitXor <- XorOfBits
INVARIANTS NodeSurvives CredentialsRemoved TurnedByEachReading SixListening
           ParametersComeBack ClassesOfTurnedWords
PROPERTIES NormalizedLeadsThere CallsAgreeWithOperators
\* A caller may stop calling.
CHECK_DEADLOCK FALSE
