\* One task at a time through either coordinator, changed while it runs.
SPECIFICATION Spec
CONSTANTS
    ollama = ollama
    cloud = cloud
    name = name
    diagnosis = diagnosis
    health = health
    note = note
    harmless = harmless
    delicate = delicate
    topic = topic
    Local = ollama
    Providers <- MCProviders
    Sources = {note}
    Health <- MCHealth
    Finance = {}
    OtherTags = {}
    CustomIds = {}
    Tasks = {t1}
    Memories <- MCMemories
    StoredLevel <- MCStored
    Judgement <- MCJudgement
    Ambiguous = {name}
    Facts <- MCFacts
    Whole = Whole
    FactLevel <- MCFactLevel
    TopicOf <- MCTopicOf
    Long <- MCLong
    Topics = {topic}
    Constitutions <- MCConstitutions
    Pipelines <- MCPipelines
    BrokenKeys = {"governance", "policy"}
    Ceilings = {3}
    Contexts <- MCContexts
    MaxCalls = 5
    MaxChanges = 1
CHECK_DEADLOCK FALSE
INVARIANTS
    OnlyJudgedLeaves
    WithheldIsReported
PROPERTIES
    EveryTaskAnswered
