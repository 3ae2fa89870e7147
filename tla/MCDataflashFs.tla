--------------------------- MODULE MCDataflashFs ---------------------------
(* Instances of the dataflash file system for TLC: a chip of a few pages   *)
(* of one or two bytes, one or two small inode tables and two files.       *)
EXTENDS DataflashFs

CONSTANT a, b

TwoNames == {1, 2}
TwoBytes == {a, b}
Disciplined == {"reserve", "crossing", "boundary", "lap", "ghost", "inodes"}
Lap == Disciplined \ {"lap"}
=============================================================================
