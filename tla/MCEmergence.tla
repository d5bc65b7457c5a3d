---------------------------- MODULE MCEmergence ----------------------------
EXTENDS Emergence

CONSTANTS compute, predict_reward, optimize_action

\* What a skill that computes something can be registered with, at worst.
MCCapabilityLists == {<<compute>>, <<compute, predict_reward, optimize_action>>}
=============================================================================
