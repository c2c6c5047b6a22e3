CONSTANTS
    BootstrapFiles <- Files
    TLDs = {"com", "net", "de", "org"}
    RegistryDocs <- MCRegistryDocs
    RegistrarDocs <- MCRegistrarDocs
SPECIFICATION Spec
INVARIANTS
    Routed
    MergeAdds
    ContactsFaithful
PROPERTIES
    ImplementsEnrichedLookup
    LookupReturns
