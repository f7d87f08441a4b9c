--------------------------- MODULE MCSoundBlaster ---------------------------
(***************************************************************************)
(* Small instances of SoundBlaster for TLC.  Words count to 4, so a block  *)
(* of length 4 is the one whose length wraps to 0.                         *)
(***************************************************************************)
EXTENDS SoundBlaster

CONSTANT d1

\* An SB Pro program, an SB16 program, one that talks to the CD-ROM while it
\* plays, and two that only read CDs, through base+0 and through base+1.
MCPrograms ==
  {[play |-> {"play8", "record8", "continue8"}, read |-> {}],
   [play |-> {"play8x", "loop16"}, read |-> {}],
   [play |-> {"loop8"}, read |-> {"info"}],
   [play |-> {}, read |-> CdCommands \ {"read"}],
   [play |-> {}, read |-> {"read"}]}

MCDiscs == {d1}
=============================================================================
