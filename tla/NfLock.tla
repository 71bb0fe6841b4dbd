------------------------------- MODULE NfLock -------------------------------
(***************************************************************************)
(* nf_lock and the packet loop of worker_main in the lock-based runtime    *)
(* (synthesized/boilerplate/locks.c).  Every lcore first executes          *)
(* nf_process speculatively holding only its own token; when that          *)
(* execution attempted a write, the lcore takes the write token and then   *)
(* every lcore's token, in lcore order, and executes nf_process again.     *)
(***************************************************************************)
EXTENDS Integers

CONSTANT N   \* rte_lcore_count()

ASSUME NAssumption == N \in Nat \ {0}

Lcores == 0 .. N - 1

VARIABLES tokens,         \* nf_lock.tokens[lcore].atom, 0 or 1
          write_token,    \* nf_lock.write_token.atom
          pc,             \* where each lcore is in worker_main
          cursor,         \* the lcore_id of the RTE_LCORE_FOREACH loops
          write_attempt,  \* RTE_PER_LCORE(write_attempt)
          write_state     \* RTE_PER_LCORE(write_state)

vars == <<tokens, write_token, pc, cursor, write_attempt, write_state>>

(* "init", "init_loop"  nf_util_init -> nf_lock_init                        *)
(* "recv"               before the next packet of the batch                *)
(* "block"              spinning in nf_lock_block_writes                   *)
(* "read"               in nf_process, read mode                           *)
(* "allow"              about to call nf_lock_allow_writes                 *)
(* "clear"              nf_lock_write_lock, before clearing its own token  *)
(* "acquire"            spinning on the write token                        *)
(* "collect"            collecting the tokens of all lcores                *)
(* "write"              in nf_process, write mode                          *)
(* "release"            nf_lock_write_unlock                               *)
(* "send"               acting on dst_device                               *)
StartPcs == {"init", "init_loop"}
LoopPcs == {"recv", "block", "read", "allow", "clear", "acquire", "collect",
            "write", "release", "send"}

TypeOK ==
  /\ tokens \in [Lcores -> {0, 1}]
  /\ write_token \in {0, 1}
  /\ pc \in [Lcores -> StartPcs \cup LoopPcs]
  /\ cursor \in [Lcores -> 0 .. N]
  /\ write_attempt \in [Lcores -> BOOLEAN]
  /\ write_state \in [Lcores -> BOOLEAN]

(* The globals of locks.c before any worker runs: static storage.          *)
InitLock ==
  /\ tokens = [l \in Lcores |-> 0]
  /\ write_token = 0
  /\ cursor = [l \in Lcores |-> 0]
  /\ write_attempt = [l \in Lcores |-> FALSE]
  /\ write_state = [l \in Lcores |-> FALSE]

(* The program as MAIN launches it: every lcore enters worker_main.        *)
InitLaunch == InitLock /\ pc = [l \in Lcores |-> "init"]

(* Every worker has returned from nf_util_init, none has a packet yet.     *)
Init == InitLock /\ pc = [l \in Lcores |-> "recv"]

Goto(l, label) == pc' = [pc EXCEPT ![l] = label]

----------------------------------------------------------------------------
(* nf_lock_init: rte_malloc gives a new array of arbitrary contents ...    *)
InitMalloc(l) ==
  /\ pc[l] = "init"
  /\ tokens' \in [Lcores -> {0, 1}]
  /\ cursor' = [cursor EXCEPT ![l] = 0]
  /\ Goto(l, "init_loop")
  /\ UNCHANGED <<write_token, write_attempt, write_state>>

(* ... whose atoms are initialised one by one ...                          *)
InitToken(l) ==
  /\ pc[l] = "init_loop" /\ cursor[l] < N
  /\ tokens' = [tokens EXCEPT ![cursor[l]] = 0]
  /\ cursor' = [cursor EXCEPT ![l] = @ + 1]
  /\ UNCHANGED <<write_token, pc, write_attempt, write_state>>

(* ... and the write token last.                                           *)
InitWriteToken(l) ==
  /\ pc[l] = "init_loop" /\ cursor[l] = N
  /\ write_token' = 0
  /\ Goto(l, "recv")
  /\ UNCHANGED <<tokens, cursor, write_attempt, write_state>>

(* A packet of the batch: the two per-lcore flags are reset.               *)
Recv(l) ==
  /\ pc[l] = "recv"
  /\ write_attempt' = [write_attempt EXCEPT ![l] = FALSE]
  /\ write_state' = [write_state EXCEPT ![l] = FALSE]
  /\ Goto(l, "block")
  /\ UNCHANGED <<tokens, write_token, cursor>>

(* Mutant of BlockWrites: the own token is set without waiting for it.     *)
BlockWritesNoSpin(l) ==
  /\ pc[l] = "block"
  /\ tokens' = [tokens EXCEPT ![l] = 1]
  /\ Goto(l, "read")
  /\ UNCHANGED <<write_token, cursor, write_attempt, write_state>>

(* nf_lock_block_writes: a successful test-and-set of the own token.       *)
BlockWrites(l) ==
  /\ pc[l] = "block" /\ tokens[l] = 0
  /\ tokens' = [tokens EXCEPT ![l] = 1]
  /\ Goto(l, "read")
  /\ UNCHANGED <<write_token, cursor, write_attempt, write_state>>

(* The read-mode nf_process ends; any mutating libVig call it made has set *)
(* write_attempt, and worker_main then sets write_state.                   *)
EndRead(l) ==
  /\ pc[l] = "read"
  /\ \E attempt \in BOOLEAN :
       /\ write_attempt' = [write_attempt EXCEPT ![l] = attempt]
       /\ write_state' = [write_state EXCEPT ![l] = attempt]
       /\ Goto(l, IF attempt THEN "clear" ELSE "allow")
  /\ UNCHANGED <<tokens, write_token, cursor>>

(* nf_lock_allow_writes *)
AllowWrites(l) ==
  /\ pc[l] = "allow"
  /\ tokens' = [tokens EXCEPT ![l] = 0]
  /\ Goto(l, "send")
  /\ UNCHANGED <<write_token, cursor, write_attempt, write_state>>

(* Mutant of WriteLockClear: the own token is kept.                        *)
WriteLockKeep(l) ==
  /\ pc[l] = "clear"
  /\ Goto(l, "acquire")
  /\ UNCHANGED <<tokens, write_token, cursor, write_attempt, write_state>>

(* nf_lock_write_lock gives up the own token before it asks for the others *)
WriteLockClear(l) ==
  /\ pc[l] = "clear"
  /\ tokens' = [tokens EXCEPT ![l] = 0]
  /\ Goto(l, "acquire")
  /\ UNCHANGED <<write_token, cursor, write_attempt, write_state>>

(* ... then takes the write token ...                                      *)
WriteLockAcquire(l) ==
  /\ pc[l] = "acquire" /\ write_token = 0
  /\ write_token' = 1
  /\ cursor' = [cursor EXCEPT ![l] = 0]
  /\ Goto(l, "collect")
  /\ UNCHANGED <<tokens, write_attempt, write_state>>

(* Mutant of WriteLockCollect: the loop stops one lcore early.             *)
WriteLockCollectShort(l) ==
  /\ pc[l] = "collect" /\ tokens[cursor[l]] = 0
  /\ tokens' = [tokens EXCEPT ![cursor[l]] = 1]
  /\ cursor' = [cursor EXCEPT ![l] = @ + 1]
  /\ Goto(l, IF cursor[l] + 2 >= N THEN "write" ELSE "collect")
  /\ UNCHANGED <<write_token, write_attempt, write_state>>

(* ... then every lcore's token, in lcore order.                           *)
WriteLockCollect(l) ==
  /\ pc[l] = "collect" /\ tokens[cursor[l]] = 0
  /\ tokens' = [tokens EXCEPT ![cursor[l]] = 1]
  /\ cursor' = [cursor EXCEPT ![l] = @ + 1]
  /\ Goto(l, IF cursor[l] + 1 = N THEN "write" ELSE "collect")
  /\ UNCHANGED <<write_token, write_attempt, write_state>>

(* The write-mode nf_process ends and nf_lock_write_unlock begins.         *)
EndWrite(l) ==
  /\ pc[l] = "write"
  /\ cursor' = [cursor EXCEPT ![l] = 0]
  /\ Goto(l, "release")
  /\ UNCHANGED <<tokens, write_token, write_attempt, write_state>>

WriteUnlockToken(l) ==
  /\ pc[l] = "release" /\ cursor[l] < N
  /\ tokens' = [tokens EXCEPT ![cursor[l]] = 0]
  /\ cursor' = [cursor EXCEPT ![l] = @ + 1]
  /\ UNCHANGED <<write_token, pc, write_attempt, write_state>>

(* Mutant of WriteUnlock: the worker loops back to a new speculative run.  *)
WriteUnlockRetry(l) ==
  /\ pc[l] = "release" /\ cursor[l] = N
  /\ write_token' = 0
  /\ Goto(l, "block")
  /\ UNCHANGED <<tokens, cursor, write_attempt, write_state>>

WriteUnlock(l) ==
  /\ pc[l] = "release" /\ cursor[l] = N
  /\ write_token' = 0
  /\ Goto(l, "send")
  /\ UNCHANGED <<tokens, cursor, write_attempt, write_state>>

(* Free, flood or queue the packet; back to the loop over the batch.       *)
Send(l) ==
  /\ pc[l] = "send"
  /\ Goto(l, "recv")
  /\ UNCHANGED <<tokens, write_token, cursor, write_attempt, write_state>>

----------------------------------------------------------------------------
Start(l) == InitMalloc(l) \/ InitToken(l) \/ InitWriteToken(l)

(* What an lcore does with a packet in hand.                               *)
Step(l) ==
  \/ BlockWrites(l) \/ EndRead(l) \/ AllowWrites(l)
  \/ WriteLockClear(l) \/ WriteLockAcquire(l) \/ WriteLockCollect(l)
  \/ EndWrite(l) \/ WriteUnlockToken(l) \/ WriteUnlock(l) \/ Send(l)

Next == \E l \in Lcores : Recv(l) \/ Step(l)

Spec == Init /\ [][Next]_vars

(* Each lcore is a thread pinned to its own core, so it keeps executing;   *)
(* nothing makes its test-and-set win against the other lcores.            *)
FairSpec == Spec /\ \A l \in Lcores : WF_vars(Step(l))

NextLaunch == \E l \in Lcores : Start(l) \/ Recv(l) \/ Step(l)

SpecLaunch == InitLaunch /\ [][NextLaunch]_vars

----------------------------------------------------------------------------
InWrite(l) == pc[l] = "write"
InProcess(l) == pc[l] \in {"read", "write"}

(* A write-mode nf_process, the only one that changes the shared tables,   *)
(* runs alone: no other lcore is inside nf_process in either mode.         *)
Exclusion ==
  \A l, k \in Lcores : InWrite(l) /\ InProcess(k) => l = k

(* The token that stands for lcore t is held by l.                         *)
Holds(l, t) ==
  \/ pc[l] \in {"read", "allow", "clear"} /\ t = l
  \/ pc[l] = "collect" /\ t < cursor[l]
  \/ pc[l] = "write"
  \/ pc[l] = "release" /\ t >= cursor[l]

HoldsWrite(l) == pc[l] \in {"collect", "write", "release"}

(* An atom is set exactly while some lcore holds it, and has one holder.   *)
TokenSet == \A t \in Lcores : tokens[t] = 1 <=> \E l \in Lcores : Holds(l, t)
TokenUnique == \A t, l, k \in Lcores : Holds(l, t) /\ Holds(k, t) => l = k
WriteSet == write_token = 1 <=> \E l \in Lcores : HoldsWrite(l)
WriteUnique == \A l, k \in Lcores : HoldsWrite(l) /\ HoldsWrite(k) => l = k

(* A set atom belongs to exactly one lcore: no clear ever releases a token *)
(* another lcore relies on, and no token is left set for good.             *)
TokenOwners == TokenSet /\ TokenUnique /\ WriteSet /\ WriteUnique

(* The lock implements the abstract reader-writer lock.                    *)
RW == INSTANCE ReadWriteLock
        WITH Procs <- Lcores,
             readers <- {l \in Lcores : pc[l] = "read"},
             writers <- {l \in Lcores : pc[l] = "write"}

RWSpec == RW!Spec

(* While some lcore has a packet in hand, some lcore finishes a packet:    *)
(* giving up the own token before collecting all of them in a fixed order  *)
(* leaves no circular wait.                                                *)
SomePacketFinishes ==
  (\E l \in Lcores : pc[l] \notin {"recv", "send"})
    ~> (\E l \in Lcores : pc[l] = "send")
=============================================================================
