SPECIFICATION StartSpec
CONSTANTS
    Environments <- ClusterEnvironments
    CommandLines <- ClusterCommandLines
INVARIANT UrlAuthorizes
