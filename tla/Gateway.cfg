\* Chats, changes of configuration and rules at every suspension, and answers.
SPECIFICATION Spec
CONSTANTS
    ollama = ollama
    cloud = cloud
    keyless = keyless
    name = name
    address = address
    diagnosis = diagnosis
    health = health
    finance = finance
    note = note
    Local = ollama
    Providers <- MCProviders
    Sources = {note}
    Health <- MCHealth
    Finance <- MCFinance
    OtherTags = {}
    CustomIds <- MCCustomIds
    Chats = {q1, q2}
    Memories <- MCMemories
    Candidate = Candidate
    StoredLevel <- MCStored
    TextLevel <- MCText
    TagsOf <- MCTagsOf
    SourceOf <- MCSourceOf
    Configs <- MCConfigs
    RuleFiles <- MCRuleFiles
    Hours = {9, 15}
    Unset = Unset
    MaxChanges = 2
    MaxAnswers = 2
SYMMETRY MCSymmetry
CONSTRAINT MCBound
INVARIANTS
    GuardedStaysHome
    AnsweredIsAudited
    ConsentBacked
PROPERTIES
    LatestAnswerFollowed
