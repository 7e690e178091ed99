------------------------------ MODULE MCRdModel ------------------------------
EXTENDS RdModel

CONSTANTS v1, v2, k1, t1, t2, r1,
          l1, l2, l3, w1, w2

MCValues == {v1, v2}
MCKey == {k1}
MCTask == {t1, t2}
MCRequestId == {r1}
MCRestarts == [s \in Side |-> IF s = "slave" THEN 1 ELSE 0]
MCLife == {l1, l2, l3}
MCWorker == {w1, w2}
=============================================================================
