------------------------------- MODULE MCFanout -------------------------------
\* Three units on two lanes: one lane waits on a child that will not stop while the other
\* takes the last unit, and either fails first.
EXTENDS Fanout

=============================================================================
