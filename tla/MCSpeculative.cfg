\* Two steps or more, with full accepts, refusals and the bonus in every order.
SPECIFICATION FairSpec
CONSTANTS
    Tokens = {0, 1, 2}
    Stop = {2}
    Prompt <- MCPrompt
    K = 2
    MaxTokens = 6
INVARIANTS CachesAgree CacheIsOwnText
PROPERTIES ImplementsTokenStream Terminates
