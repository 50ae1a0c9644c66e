CONSTANTS
    NoKey = NoKey
    Policies <- EachPolicy
    Budgeted = TRUE
    NumSources = 2
    DynamicKeys <- OneKey
    Shapes <- EachScope
    Preloads = {0, 1}
    MaxReminders = 2
    MaxTurns = 3
    MaxRounds = 2
    Sources <- SmallSources
    PolicyMaps <- SmallPolicies
    Mappings <- SmallMappings
    Overrides <- SmallOverrides
    ObjectTexts <- SmallTexts
    TemplateNames = {"p", "q"}
    MaxTemplates = 2
SPECIFICATION StartedSpec
INVARIANTS
    LastBindingWins
    ValuesAreNeverTemplates
    NoOrphanDecoration
PROPERTIES
    NextRequestOnce
    ScopedReminders
    FreshProjections
    LongestHistory
    CompileIsOneStep
CHECK_DEADLOCK FALSE
