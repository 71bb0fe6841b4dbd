-------------------------------- MODULE Htm --------------------------------
(***************************************************************************)
(* The transactional runtime (synthesized/boilerplate/motivation/tm.c, and *)
(* tm.c beside it): nf_process counts a packet in a hardware transaction   *)
(* between HTM_SGL_begin and HTM_SGL_commit or, after as many aborts as    *)
(* its budget, under a single global lock.  The counters, which all get    *)
(* the same increment of 13^200 % 17 = 1, are one number.                  *)
(*                                                                         *)
(* The hardware (external): a transaction aborts when another lcore writes *)
(* something it has read, and may abort at any time.                       *)
(***************************************************************************)
EXTENDS Integers

CONSTANTS Lcores, Master,
          HTM_SGL_INIT_BUDGET,
          Wrap                 \* bound: the counters count modulo Wrap

VARIABLES pc, tid, budget,     \* per lcore
          sgl,                 \* HTM_SGL_var: -1, or the tid of the owner
          counter,             \* c1 .. c6
          seen,                \* per lcore: the counter as nf_process read it
          early                \* history: lcores whose packet came before the
                               \* master lcore cleared the counters

vars == <<pc, tid, budget, sgl, counter, seen, early>>

HtmAssumption == /\ Lcores \subseteq Nat /\ Master \in Lcores
                 /\ HTM_SGL_INIT_BUDGET \in Nat /\ Wrap \in Nat \ {0, 1}

NoTid == -1

HTM_init == sgl = NoTid

Init == /\ HTM_init
        /\ pc = [l \in Lcores |-> "launch"] /\ tid = [l \in Lcores |-> NoTid]
        /\ budget = [l \in Lcores |-> 0]
        /\ counter = 0 /\ seen = [l \in Lcores |-> 0] /\ early = {}

(* An abort that costs nothing.                                            *)
HTM_UPDATE_BUDGET_kept(b) == b

HTM_UPDATE_BUDGET(b) == b - 1

Goto(l, label) == pc' = [pc EXCEPT ![l] = label]

(* The labels of a transaction that has read sgl, and the counter.         *)
ReadSgl     == {"process", "commit"}
ReadCounter == {"commit"}

(* A write to something the labels have read aborts the transactions of    *)
(* the others, which go back to the loop of HTM_SGL_begin; the writer goes *)
(* on at the given label.                                                  *)
WriteAborts(l, labels, label) ==
  LET hit(m) == m # l /\ pc[m] \in labels
  IN  /\ pc' = [m \in Lcores |-> IF m = l THEN label ELSE IF hit(m) THEN "begin" ELSE pc[m]]
      /\ budget' = [m \in Lcores |-> IF hit(m) THEN HTM_UPDATE_BUDGET(budget[m]) ELSE budget[m]]

(* Every lcore runs it when it is launched, the master lcore last, or not; *)
(* HTM_thr_init is passed rte_lcore_id().                                  *)
nf_init(l) == /\ pc[l] = "launch"
              /\ IF l = Master THEN WriteAborts(l, ReadCounter, "idle") /\ counter' = 0
                 ELSE Goto(l, "idle") /\ UNCHANGED <<budget, counter>>
              /\ tid' = [tid EXCEPT ![l] = l]
              /\ UNCHANGED <<sgl, seen, early>>

(* The hardware aborts a transaction.                                      *)
Abort(l) == /\ pc[l] \in {"check", "process", "commit"} /\ Goto(l, "begin")
            /\ budget' = [budget EXCEPT ![l] = HTM_UPDATE_BUDGET(@)]
            /\ UNCHANGED <<tid, sgl, counter, seen, early>>

(* A packet comes: the head of HTM_SGL_begin.                              *)
Receive(l) == /\ pc[l] = "idle" /\ Goto(l, "begin")
              /\ budget' = [budget EXCEPT ![l] = HTM_SGL_INIT_BUDGET]
              /\ early' = IF pc[Master] = "launch" THEN early \cup {l} ELSE early \ {l}
              /\ UNCHANGED <<tid, sgl, counter, seen>>

(* With budget left HTM_block waits for the lock, then _xbegin.            *)
StartTransaction(l) == /\ pc[l] = "begin" /\ budget[l] > 0 /\ sgl = NoTid
                       /\ Goto(l, "check")
                       /\ UNCHANGED <<tid, budget, sgl, counter, seen, early>>

(* The lock read before the transaction only.                              *)
CheckSglSkipped(l) ==
  /\ pc[l] = "check" /\ Goto(l, "process") /\ UNCHANGED <<tid, budget, sgl, counter, seen, early>>

(* CHECK_SGL_HTM, in the transaction: it aborts when the lock is taken.    *)
CheckSgl(l) ==
  /\ pc[l] = "check"
  /\ IF sgl = NoTid THEN Goto(l, "process") /\ UNCHANGED budget
     ELSE Goto(l, "begin") /\ budget' = [budget EXCEPT ![l] = HTM_UPDATE_BUDGET(@)]
  /\ UNCHANGED <<tid, sgl, counter, seen, early>>

Process(l) == /\ pc[l] = "process" /\ Goto(l, "commit")
              /\ seen' = [seen EXCEPT ![l] = counter]
              /\ UNCHANGED <<tid, budget, sgl, counter, early>>

(* HTM_SGL_commit of a transaction: its writes appear at once.             *)
CommitTransaction(l) == /\ pc[l] = "commit"
                        /\ WriteAborts(l, ReadCounter, "idle")
                        /\ counter' = (seen[l] + 1) % Wrap
                        /\ UNCHANGED <<tid, sgl, seen, early>>

(* HTM_enter_fallback: its outer loop, with the inner one that waits.      *)
EnterFallback(l) ==
  /\ pc[l] = "begin" /\ budget[l] = 0
  /\ \/ sgl = tid[l] /\ Goto(l, "fallback")
     \/ sgl # tid[l] /\ sgl = NoTid /\ Goto(l, "cas")
  /\ UNCHANGED <<tid, budget, sgl, counter, seen, early>>

CompareAndSwap(l) ==
  /\ pc[l] = "cas"
  /\ IF sgl = NoTid THEN WriteAborts(l, ReadSgl, "begin") /\ sgl' = tid[l]
     ELSE Goto(l, "begin") /\ UNCHANGED <<budget, sgl>>
  /\ UNCHANGED <<tid, counter, seen, early>>

(* nf_process under the lock, its read and its write.                      *)
ReadLocked(l) == /\ pc[l] = "fallback" /\ Goto(l, "write")
                 /\ seen' = [seen EXCEPT ![l] = counter]
                 /\ UNCHANGED <<tid, budget, sgl, counter, early>>

WriteLocked(l) == /\ pc[l] = "write"
                  /\ WriteAborts(l, ReadCounter, "exit")
                  /\ counter' = (seen[l] + 1) % Wrap
                  /\ UNCHANGED <<tid, sgl, seen, early>>

(* HTM_SGL_commit outside a transaction.                                   *)
ExitFallback(l) == /\ pc[l] = "exit"
                   /\ WriteAborts(l, ReadSgl, "idle")
                   /\ sgl' = NoTid
                   /\ UNCHANGED <<tid, counter, seen, early>>

Lcore(l) == \/ nf_init(l) \/ Receive(l)
            \/ StartTransaction(l) \/ CheckSgl(l) \/ Process(l) \/ CommitTransaction(l)
            \/ EnterFallback(l) \/ CompareAndSwap(l)
            \/ ReadLocked(l) \/ WriteLocked(l) \/ ExitFallback(l)

Next == \E l \in Lcores : Lcore(l) \/ Abort(l)

(* Lcores run on; when transactions abort is up to the hardware.           *)
FairSpec == Init /\ [][Next]_vars /\ \A l \in Lcores : WF_vars(Lcore(l))
-----------------------------------------------------------------------------
TypeOK == /\ pc \in [Lcores -> {"launch", "idle", "begin", "check", "process", "commit", "cas",
                                "fallback", "write", "exit"}]
          /\ tid \in [Lcores -> Lcores \cup {NoTid}]
          /\ budget \in [Lcores -> 0 .. HTM_SGL_INIT_BUDGET]
          /\ sgl \in Lcores \cup {NoTid}
          /\ early \subseteq Lcores
          /\ counter \in 0 .. (Wrap - 1) /\ seen \in [Lcores -> 0 .. (Wrap - 1)]

(* Packets are counted as if one after the other: what nf_process has read *)
(* of the counters is still there when it writes, in a transaction and     *)
(* under the lock, which only its owner is past; but for the packets of    *)
(* lcores that are ahead of the nf_init of the master lcore.               *)
Isolated ==
  \A l \in Lcores :
    /\ pc[l] \in {"commit", "write"} /\ l \notin early => seen[l] = counter
    /\ pc[l] \in {"fallback", "write", "exit"} => sgl = l

(* However transactions abort, packets keep being processed.               *)
KeepsProcessing == []<><<counter' # counter>>_vars
=============================================================================
