---------------------------- MODULE MCStopWorld ----------------------------
EXTENDS StopWorld

\* A hop up and down, a retract with its reset, a move of two seconds; the
\* extruder moves by amounts (M83), and the hop and the descent set Z.
ShortLines == <<
  [by |-> 1, z |-> 0, e |-> 2, rel |-> {"z", "e"}, again |-> 1],
  [by |-> 2, z |-> 3, e |-> 1, rel |-> {"e"}, again |-> 1],
  [by |-> 2, z |-> 3, e |-> 0, rel |-> {"z"}, again |-> 0],
  [by |-> 4, z |-> 1, e |-> 0, rel |-> {"e"}, again |-> 0],
  [by |-> 5, z |-> 1, e |-> 3, rel |-> {"z", "e"}, again |-> 1]>>

\* The same moves with no reset of the extruder's count among them.
NoReset == <<
  [by |-> 1, z |-> 0, e |-> 2, rel |-> {"z", "e"}, again |-> 1],
  [by |-> 2, z |-> 3, e |-> 1, rel |-> {"e"}, again |-> 1],
  [by |-> 4, z |-> 1, e |-> 1, rel |-> {"e"}, again |-> 0],
  [by |-> 5, z |-> 1, e |-> 4, rel |-> {"z", "e"}, again |-> 1]>>
=============================================================================
