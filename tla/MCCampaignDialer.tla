-------------------------- MODULE MCCampaignDialer ---------------------------
(* Instances of CampaignDialer for TLC.                                    *)
EXTENDS CampaignDialer, TLC

\* Jobs and workers are interchangeable; every property of these runs is an
\* invariant.
MCSymmetry == Permutations(Jobs) \union Permutations(Workers)
==============================================================================
