---------------------------- MODULE MC_FeeCurve -----------------------------
EXTENDS FeeCurve

\* The configurations the scripts call, in basis points and percent:
\* gini_3segment.py's run list (flat 5%, linear 1%-15%, "3-Seg wide",
\* "3-Seg balanced", "3-Seg sigmoid-match", and three_segment_fee_rate's
\* defaults), generate_figures.py's three_segment defaults, and
\* gini_single_step.py's progressive and flat 5% curves.
MCCurves ==
    { [kind |-> "flat", rate |-> 500],
      [kind |-> "linear", rMin |-> 100, rMax |-> 1500],
      [kind |-> "threeSegment", w1Pct |-> 10, w2Pct |-> 60,
       rPoor |-> 100, rMidStart |-> 100, rMidEnd |-> 1200, rRich |-> 1500],
      [kind |-> "threeSegment", w1Pct |-> 15, w2Pct |-> 70,
       rPoor |-> 100, rMidStart |-> 200, rMidEnd |-> 1000, rRich |-> 1500],
      [kind |-> "threeSegment", w1Pct |-> 20, w2Pct |-> 80,
       rPoor |-> 200, rMidStart |-> 300, rMidEnd |-> 1200, rRich |-> 1400],
      [kind |-> "threeSegment", w1Pct |-> 10, w2Pct |-> 50,
       rPoor |-> 100, rMidStart |-> 200, rMidEnd |-> 1200, rRich |-> 1500],
      [kind |-> "progressive"] }
=============================================================================
