---------------------------- MODULE MCTestThread ----------------------------
(* Three threads and two runs, for reinit.  Nine cells met with a stride of *)
(* two make passes of different lengths (5 + 4); with nine iterations each  *)
(* cell of user2 is used three times and starts at a value that depends on  *)
(* its index.  In mode timebase a few iterations are enough for a thread to *)
(* store the next target while another has not loaded the present one.      *)
(* The setting with "-safer all" has one iteration; a thread may store      *)
(* twice, and the or flag is used four times before the stores are visible. *)
EXTENDS TestThread

Setting(m, n, s, c) == [mode |-> m, size |-> n, stride |-> s, collect |-> c]
MCSafer == {Setting("user", 1, 1, FALSE)}
MCConfigs ==
  MCSafer \cup
  {Setting("user", 9, 1, FALSE), Setting("user", 9, 2, FALSE),
   Setting("user2", 9, 1, FALSE), Setting("user2", 7, 1, FALSE),
   Setting("timebase", 2, 1, TRUE), Setting("timebase", 3, 2, TRUE)}
MCStoreSeqs == {<<>>, <<1>>, <<2>>, <<1, 2>>}

\* user2 with a stride of two, and timebase without collection.
CompactStride == {Setting("user2", 8, 2, FALSE)}
NoCollection  == {Setting("timebase", 2, 1, FALSE)}
=============================================================================
