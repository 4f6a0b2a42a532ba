---------------------------- MODULE MCLogWriters ----------------------------
(* Instances of LogWriters for TLC. *)
EXTENDS LogWriters

CONSTANTS p1, p2, w1

\* As a call of SetUp leaves it, so that the bounded calls can go to logging.
AfterSetUp ==
    /\ level = ConfLevel /\ disableStat = ~ConfStat /\ writer = <<"file">> /\ once = "done"
    /\ logs = [l \in Range(Logs) |-> "open"]
    /\ now = 0 /\ lastTime = LongAgo /\ discarded = 0
    /\ pc = [p \in Procs |-> "idle"] /\ local = [p \in Procs |-> Idle]
    /\ calls = 0 /\ faults = 0
    /\ chain = {"file"} /\ shut = "no"
    /\ runs = {} /\ dropped = 0 /\ announced = 0 /\ unannounced = 0

MCSpec == /\ (Init \/ AfterSetUp)
          /\ [][Next]_vars
          /\ \A p \in Procs : WF_vars(Step(p))
=============================================================================
