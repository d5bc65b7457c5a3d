SPECIFICATION Spec
CONSTANTS
    compute = compute
    predict_reward = predict_reward
    optimize_action = optimize_action
    CapabilityLists <- MCCapabilityLists
    Agents = 4
    Stems = {1}
    Tails = {1, 2}
    MaxRound = 3
INVARIANT
    DepthIsCausal
CHECK_DEADLOCK FALSE
