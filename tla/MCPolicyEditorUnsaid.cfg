CONSTANTS
    Typed <- MCTyped
    Created <- MCCreated
    OtherPolicies <- MCOtherPolicies
    Forms <- MCForms
    ProviderRules = {"_provider_p"}
    LowerCase <- MCLowerCase
    MaxRevision = 2
    MaxOthers = 1
    MaxActs = 2
SPECIFICATION EditorSpec
CHECK_DEADLOCK FALSE
PROPERTIES
    NothingIsChangedUnsaid
