------------------------------ MODULE MCClock ------------------------------
EXTENDS Clock

\* Twice a day at most: a time, and the same seconds of any minute.
MCAlarms == {<<0, 1, 0>>, <<0, Any, Any>>, <<1, 0, 1>>}
=============================================================================
