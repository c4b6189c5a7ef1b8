SPECIFICATION Spec
CONSTANTS
    alpaca = alpaca
    coinbase = coinbase
    btc = btc
    Sources = {alpaca, coinbase}
    Keyed = {alpaca}
    Products = {btc}
    Depth = 2
    QueueCap = 1
    BackoffCap = 2
    MaxExponent = 2
    MaxEvents = 3
    Answers <- MCAnswers
INVARIANTS
    EndsOnlyWhenTold
CHECK_DEADLOCK FALSE
