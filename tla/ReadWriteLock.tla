--------------------------- MODULE ReadWriteLock ---------------------------
(***************************************************************************)
(* What the lock of the lock-based worker promises: the speculative        *)
(* (read-mode) executions of nf_process may overlap one another, and a     *)
(* write-mode execution of nf_process overlaps nothing.                    *)
(***************************************************************************)
CONSTANT Procs

VARIABLES readers,  \* lcores executing nf_process in read mode
          writers   \* lcores executing nf_process in write mode

vars == <<readers, writers>>

Init == readers = {} /\ writers = {}

StartRead(p) ==
  /\ p \notin readers /\ writers = {}
  /\ readers' = readers \cup {p}
  /\ UNCHANGED writers

EndRead(p) ==
  /\ p \in readers
  /\ readers' = readers \ {p}
  /\ UNCHANGED writers

StartWrite(p) ==
  /\ readers = {} /\ writers = {}
  /\ writers' = {p}
  /\ UNCHANGED readers

EndWrite(p) ==
  /\ p \in writers
  /\ writers' = writers \ {p}
  /\ UNCHANGED readers

Next == \E p \in Procs :
          StartRead(p) \/ EndRead(p) \/ StartWrite(p) \/ EndWrite(p)

Spec == Init /\ [][Next]_vars
=============================================================================
