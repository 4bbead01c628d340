---------------------------- MODULE MC_SingleStep ----------------------------
EXTENDS SingleStep

\* gini_single_step.py's two fee functions.
MCProgressive == [kind |-> "progressive"]
MCFlat == [kind |-> "flat", rate |-> 500]
=============================================================================
