------------------------------ MODULE MCSignals ------------------------------
(***************************************************************************)
(* Small instance of Signals: three threads, a job that behaves and one    *)
(* whose error handler raises.                                             *)
(***************************************************************************)
EXTENDS Signals

CONSTANTS t1, t2, t3, job, badJob

MCThreads == {t1, t2, t3}
MCJobs == {job, badJob}
MCEscaping == {badJob}
=============================================================================
