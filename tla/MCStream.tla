------------------------------- MODULE MCStream -------------------------------
(***************************************************************************)
(* Small instances of Stream.                                              *)
(***************************************************************************)
EXTENDS Stream

CONSTANTS init, w1, w2, r1, r2, s1

Five == {init, w1, w2, r1, r2}
OneSleeper == {s1}
TwoWriters == <<w1, w2>>
TwoReaders == <<r1, r2>>
None == {}

AllTests == {test_itest_pipe1_init, test_itest_pipe2_init, test_itest_pipe3_init,
             test_itest_pipe4_init, test_itest_fifo1_init, test_itest_fifo2_init,
             test_itest_fifo3_init}
===============================================================================
