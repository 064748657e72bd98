SPECIFICATION Spec
CONSTANTS
    orders = orders
    mails = mails
    Channels = {orders, mails}
    Declared <- MCDeclared
    MaxListeners = 5
    MaxDepth = 3
PROPERTY ImplementsSubscriptions
