---------------------------- MODULE MCThreadPool ----------------------------
(* The instances of ThreadPool that TLC checks. *)
EXTENDS ThreadPool, TLC

CONSTANTS t1, t2, c1, c2

MCThreads == {t1, t2}
MCClients == {c1, c2}
OneWaiter == {c2}
TwoWaiters == {c1, c2}
OnlyNone == {NO_PRIORITY}
OneOrNone == {NO_PRIORITY, 1}

=============================================================================
