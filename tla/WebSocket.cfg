\* Two connections to one controller, two messages on either of them.
SPECIFICATION FairSpec
CONSTANTS
    c1 = c1  c2 = c2  m1 = m1  m2 = m2  hello = hello
    Shared = Shared  None = None
    Connections = {c1, c2}
    Messages = {m1, m2}
    Topics = {hello}
    Setups <- MCSetups
INVARIANTS
    JudgedIsHandled
    AnswersGoHome
    RefusalIsFinal
PROPERTIES
    MessagesSettle
