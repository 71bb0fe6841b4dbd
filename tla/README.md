# Vigor in TLA+

A model of the Vigor network functions, of the libVig data structures they are
built from, and of the parallel runtimes that were added to them: what each part
promises, what TLC checks on small instances, and what TLAPS proves for all.

## 1. The system

A Vigor network function (NF) is a single `nf_process` called once per packet by
a packet loop. All its state lives in libVig containers.

| Part | State | Operations | Who uses it |
| --- | --- | --- | --- |
| double chain (`libvig/verified/double-chain*.c`) | two linked lists threaded through one array of cells, a timestamp per index | allocate, rejuvenate, free, expire the oldest, is-allocated | every NF with expiring entries |
| map (`libvig/verified/map*.c`) | open addressing: busy bits, keys, hashes, chain counters, values | get, put, erase, size | every stateful NF |
| double map (`libvig/verified/double-map.c`) | two maps and one value array | get by either key, put, get value, erase | `expire_items` |
| vector (`vector.c`) | an array lent out cell by cell | borrow, return | every stateful NF |
| expirator (`expirator.c`) | none of its own | frees every index older than a border and erases its key | every NF |
| consistent hash table (`cht.c`) | a table of backend preferences per bucket | fill, find the preferred live backend | load balancer |
| LPM (`lpm-dir-24-8.c`) | two routing arrays | insert a rule, look up | none of the NFs in the repository |
| packet IO (`packet-io.c`, `nf-util.c`) | a read cursor, the chunks lent out | borrow, return, shrink, insert, unread | every NF |
| packet loop (`nf.c`) | mbufs, TX queues | receive, process, free, flood or transmit | every NF |
| NFs (`vignat`, `vigfw`, `vigbridge`, `viglb`, `vigpol`, `vigcl`, `vighhh`, `vigpsd`, ...) | one table or a few | `nf_process` | |
| lock runtime (`synthesized/boilerplate/locks.c`, `libvig/unverified/*-locks*`) | one token per lcore, a write token, per-lcore replicas of the double chain | speculative read, write lock, re-execution | parallel NFs |
| transactional runtime (`boilerplate/tm.c`, `*-tm*`) | a global fallback lock, hardware transactions | begin, commit, abort, fall back | parallel NFs |

Packets of one NF are processed one at a time, so a sequential NF has no
interleaving inside `nf_process`; what makes it hard is the *order* of packets
and time: entries expire, indexes are reused, tables fill up, and three
containers must agree at every moment. Concurrency comes in with the parallel
runtimes (several lcores, one state) and with the hardware (a device sends a
buffer some time after it was queued). Nothing is persisted, so there is no
recovery to model: a crash loses all state.

What we ask of each part:

- a container: that its arrays and links implement the abstract container its
  header promises, for any sequence of calls;
- an NF: that its containers stay in step, that it does what its `spec.py` says,
  and that the promise made to hosts holds (an answer reaches the one who asked,
  only live flows enter, no traffic above the rate, no false alarm, ...);
- a loop: that every buffer has as many owners as its count says and returns;
- a runtime: that lcores exclude each other and packets keep being processed.

## 2. Modules

An arrow reads "is built on". A name in parentheses is the abstract
specification the module is shown to implement.

| Module | Code | State and actions |
| --- | --- | --- |
| `DChainImpl` | `double-chain-impl.c` | the cells as a function to `prev`/`next`; operators for each link assignment |
| `DoubleChain` → `DChainImpl` (`IndexAllocator`) | `double-chain.c` | cells, time stamps; one action per exported function, the answer in `reply` |
| `MapImpl` | `map-impl.c`, `map-impl-pow2.c` | operators over the arrays of slots: get, put, erase with probing and chain counters |
| `FlowTable` → `DChainImpl`, `MapImpl` (`ExpiringMap`) | `map.c`, `vector.c`, `expirator.c` | the three containers used together; the expirator takes one step per iteration |
| `DoubleMap` → `DChainImpl`, `MapImpl` | `double-map.c` | two slot arrays, one value array, `expire_items` step by step |
| `Lpm` | `lpm-dir-24-8.c` | both tables, with encoded entries; insert and lookup |
| `PacketIo` (`Packet`) | `packet-io.c`, `nf-util.h` | memory as bytes, the read cursor, the chunks lent out |
| `Cht` | `cht.c` | the filling loop, one step per permutation entry; the search |
| `FlowState`, `EMap` | the contracts of map, vector, double chain; `emap.h` | a record with map, keys and chain, and the expiring map of the `spec.py` files; NFs are written over these |
| `Fw` (`FwSpec`), `Nat` (`NatSpec`), `Bridge` (`BridgeSpec`), `Lb` (`LbSpec`) | `*_main.c` and their managers; `spec.py` | one action per kind of packet, the whole of `nf_process`; `Tick` moves the clock |
| `Policer`, `PoliFw` | `vigpol`, `vigpolifw`, `vigpoliupfw` | the same, with an exact token bucket as history, and the pauses and cut refills since |
| `Psd`, `Cl`, `Hhh` | `vigpsd`, `vigcl` with `sketch.c`, `vighhh` | the same, with what each source did as history |
| `RssConfig` | `synthesized/rss-config-from-lvas` | the log of accesses, the constraints, the keys; one action per call of the builder's constructor |
| `Mbufs`, `PacketLoop`, `BatchLoop` | `nf.c`, `shared-nothing.c` | reference counts, TX queues; the worker and the devices are processes |
| `NfLock` (`ReadWriteLock`) | `boilerplate/locks.c` | one atom per lcore and a write atom; every atomic access is a step |
| `Htm` | `boilerplate/motivation/tm.c` | lock, budget, transactions with read sets; the hardware may abort at any time |
| `Startup` | `MAIN` of `nf.c`, `*_config.c`, `*_state.c` and the allocators | a table of options and a list of containers per NF; one action per step of the start-up, each of which may fail |
| `Launch` | `MAIN`, `nf_init_device` and the start of `worker_main` in `synthesized/boilerplate`; the counting programs of `motivation` | pools, queues and launched lcores of each program; `nf_init` and `nf_process` of the counters, with plain additions as a read and a write |
| `StandIns` → `FlowState` | `libvig/models/verified` | the containers, and the set of states in which the stand-ins of symbolic execution can be after the same answers |
| `DChainLocks` → `DChainImpl` | `double-chain-locks*.c`, `expirator-locks.c` | a copy of the chain for each lcore, the expirator step by step |

Two levels of containers keep the state spaces small and the argument whole: an
NF runs over the contracts in `FlowState`; that the arrays and links keep those
contracts is shown by `DoubleChain`, `FlowTable`, `DoubleMap` and `Cht`.

`Libvig` (containers), `Nfs` (NFs that forward by a table), `Watchers` (NFs that
limit or watch traffic) and `Loops` collect components for model checking.
A behaviour picks one component in its initial state (`part`, `nf`, `build`) and
takes only its steps; variables of the others hold `"unused"`. They add no
behaviour: a binary contains one NF and one loop (Makefile, `NF`). Three of them
extend the component that theorems are about (`Libvig` the double chain, `Nfs`
the firewall, `Watchers` the policer), so that TLC checks the very formulas that
are proved; while another component runs, that one is at rest. `AlarmSpec`
and `LimitSpec` in `Watchers` are the instances of `Psd` and `Cl` for the runs of
section 6.

Left out everywhere: checksums, MAC addresses that are rewritten, and text
output. Time is a clock that does not go back; every action
that takes a packet reads it. Header fields are model values or small numbers.

## 3. Runs

| Run | Shows | Instance |
| --- | --- | --- |
| `nf_lock` | a write-mode `nf_process` runs alone; each atom has one owner; the lock implements the abstract reader-writer lock; some packet always finishes | 3 lcores |
| `libvig` | links of the double chain are one ring of free and one of used cells, and every call and answer is one of the index allocator; flow table = expiring map, between iterations of the expirator too; double map found by both keys or none; longest prefix; moving headers changes no other byte; every answer of the containers is one the stand-ins can give | 3 indexes, 4 times; 3 keys with colliding hashes that wrap around; 2 x 3 keys; 3 bits of address, 3 rules; packets of 1 or 4 bytes; 3 keys for 2 indexes |
| `nfs` | firewall, NAT, bridge, balancer against `spec.py` and their promises; the policing firewalls let in live flows only, and no more than rate and burst earn; the hash table | see `Nfs.tla`; tables smaller than the number of keys, 2 internal devices for the firewall; rate 3, burst 5 for the policing firewalls |
| `watchers` | policer and heavy hitters: nothing passes, or stays unreported, beyond what rate, burst and pauses explain, and nothing is dropped or reported beyond what rounding explains; scan detector: no more ports than allowed, no false alarm; limiter: where its limit is | policer: 2 destinations for 1 entry, rate 3, burst 5 or 2, 2 ticks per second; detector: 2 sources for 1 or 2 entries, 3 ports; limiter: 3 clients, 2 rows; heavy hitters: 3 addresses, 1 bucket per length, rate 5, burst 7, 2 ticks per second |
| `loops` | counts of buffers exact unless a flood is refused, buffers return; transactions isolated and making progress; no NF starts its loop without devices and room in every container; every lcore polls a queue of its own and no queue is forgotten; protected counters count exactly; RSS keys bring together what looks up one entry | 3 buffers, 3 devices; 3 lcores, budget 1; up to 3 options with values at the edges of the tests and widths; lcores 0 and 2, 1 or 2 devices; logs of 4 to 12 accesses, 2 fields of 2 values |
| `dchain_locks` | copies agree on the free indexes, lists exact, no index freed that another lcore used recently | 2 lcores, 3 indexes |
| `nf_lock_launch`, `dchain_locks_hang`, `psd_alarm`, `cl_limit`, `flood_refused`, `rss_keys` | disagreements with the text of the repository, section 6 | |

Why the bounds are enough to meet the hard cases: every table is smaller than
the number of keys, so it fills up, refuses and is emptied by expiry; the clock
runs at least one tick beyond the expiration time, so entries expire and their
indexes are used again; three indexes are the least for which removing the
first, a middle and the last cell of a ring differ; two hashes collide at the
last slot, so probing wraps; three lcores are the least with a reader and two
competing writers. Clocks are bounded by `MaxTime`, packet edits by `MaxEdits`,
rules by `MaxRules`; counters that wrap do so at `Wrap` and `CountWrap`.
`Shapes` of `Cht` are the pairs of prime height and backends that are checked.
The arguments of `Startup` are a negative number, zero, a power of two and a
number that is not one, and 65536, which 16 bits cut to zero; its 32-bit numbers
have 30 bits, which no product of these arguments and the defaults exceeds by
the difference. The lcores of `Launch` are 0 and 2, so that numbers and order
differ, and its counters wrap at 3, more than one lcore can be behind another. In
`Libvig` the two keys that share a hash are symmetric, and so are the protocols
and the peers in `Nfs` and the destinations in `Watchers`.

The rates of `Watchers` and `Nfs` are chosen so that nothing comes out even. The
first policer has a burst of 3 1/3 ticks: an entry is forgotten after 2, so a
destination gets tokens it has not earned, and refills of an odd number of ticks
are cut. The second has a burst below the rate, as the shipped defaults have
it: an entry is forgotten after a tick (`ShortBurst`). The bucket of a subnet takes 2 4/5 ticks
to fill and is forgotten after 3, and the clock runs one further. Entries are
fewer than destinations and subnets, so one takes the place of another. The
detector has sources that never expire with rows of 2 ports (`psd`), a single
index that is used again (`psd_one`), and two indexes that are used again with
rows of 1 port (`psd_reuse`), where the cleanup of index 1 erases nothing; two
rows of 2 ports that are used again are the run `psd_alarm`.

Deadlock is checked in all runs: clocks stop at their bound, packets do not. The
loop that aborts (`VIGOR_ALLOW_DROPS` unset) stutters in `Aborted`.

Fairness. `NfLock`: weak fairness of each lcore's step, since lcores are cores
pinned by DPDK that nothing preempts. It gives that *some* packet finishes; that
every lcore gets its turn does not follow and is not claimed, since the lock has
no queue. `Htm`: the same for lcores, none for aborts. `Loops`: the worker, and
each device, which sends what it was given. `DChainLocks`: the lcore inside the
expirator.

## 4. Proofs

TLAPS checks these for every value of the constants that the named assumptions
allow. `PolicerAssumption`, `FwAssumption` and `MaxTimeAssumption` are hypotheses
of the theorems, and TLC evaluates them for the instances it checks (`Assumptions`
in `Watchers`, `Nfs` and `Libvig`).

| Theorem | Module | Argument |
| --- | --- | --- |
| `SpecTokenOwners`, `SpecExclusion`, `SpecRefinesRW` | `NfLock_proofs` | `IInv`: types, a worker still collecting has a token left, and each set atom has exactly one owner. Exclusion alone is not inductive: it says nothing of a writer that has collected half of the tokens. The refinement maps an lcore to reader, writer or idle by its `pc`. Assumes `N > 0`. |
| `SpecTypeOK`, `SpecRefinesAllocator` | `DoubleChain_proofs` | "Being on a list" is reachability, which is not first order. A rank per cell replaces it: it grows along the used ring and shrinks along the free stack, and a link skips no cell of its list. Ranks agree with the time stamps, so the head of the ring is an oldest index; each operation gives a new rank. |
| `SpecConforms`, `SpecOnlyExcessDropped` | `Policer_proofs` | `IInv`: types, table coherent, and for every entry the stored bucket with what was earned since lies between two exact buckets: the one that is given `Unearned` at every pause, and the one that loses a fraction of a byte at every cut refill. A destination without an entry was never let through to, or is in a pause. No relation between rate and burst is assumed: `Unearned` is 0 for a burst of whole seconds and nearly the burst for one below the rate. Assumes `PolicerAssumption` (rate, burst and ticks per second positive). |
| `SpecCoherent`, `SpecOnlyLiveFlowsEnter` | `Fw_proofs` | over lemmas of `FlowState_proofs` on what get, add, rejuvenate and expire do to a coherent table; history records the time a flow last left. |

`FlowState_proofs` states what every NF needs of the containers, so proofs of
`Nat` and `Bridge` can be built on the same lemmas.

Only model-checked: liveness (`SomePacketFinishes`, `Returned`,
`TmKeepsProcessing`, `ExpiratorReturns`), which the prover does not do; the
refinements of `spec.py`; that the two rings of the double chain cover all cells
(`OneListEach`, stated with reachability; the proof has the rank form instead); the hash map, whose
probing is a search the prover would need induction for; and the remaining NFs.

## 5. Hazards

`PROJECT.json` lists them with the line at which each bites and the properties
that would catch it. They fall into five families: containers that must agree
(partial failure, atomicity), indexes and times that are reused (stale state),
arithmetic at a boundary (rates, widths, wrap-around), lcores against each other
(interleaving, deadlock, liveness), and buffers shared with devices.

## 6. Where the code disagrees with its text

- `nf_lock_launch`: every lcore runs `nf_util_init`, and so `nf_lock_init`
  (`locks.c:215`). An lcore that starts late replaces the token array under a
  writer, and two lcores are in `nf_process`. A comment calls the worker
  single-threaded. `Exclusion` holds once all lcores have started (`nf_lock`).
- `dchain_locks_hang`: the expirator refreshes an index that another lcore used
  by moving a cell, but stores no time, so it may find the same index for ever
  and never return the number its header promises.
- `psd_alarm`: the cleanup of a reused index erases slots `index .. counter-1`,
  which for an index above 0 belong to another source. That source is dropped
  for a port it had already touched. `watchers` checks the cases in which this
  cannot happen: sources that never expire, a single index, rows of one port.
- `cl_limit`: `--max-clients` is the "maximum allowed number of clients", but the
  first flow of a pair of addresses sets its counter to 0 and only a counter above
  the maximum refuses, so two more are let in. `ClLimitExact` says where the limit
  really is.
- `flood_refused`: a comment says of a flood that could not be sent that it means
  to "ensure the packet is freed". If some devices took the packet, setting the
  count to 1 and freeing it returns a buffer that they still have to send. `loops`
  has floods with queues that take everything and full queues without floods.
- `rss_keys`: `filter_constraints` looks for the smallest set of fields over both
  devices and erases every constraint that has other fields on either. For a
  translator, whose replies carry in `src` what requests carry in `dst`, that
  erases all of them, and the keys are random.

Limits that are no disagreement with a text but that the properties must
respect, stated in assumptions or comments of the modules:

- `BatchLoop`: with a queue that takes only part of a batch the code frees
  `mbufs[n]`, not `mbufs_to_send[n]`; after a dropped packet these differ. The
  run has a queue that never fills up, as the comment in the code expects.
- `Lpm`: the first long rule under a prefix opens a group that does not inherit
  the shorter route. `LongestPrefix` says "among the long ones" for this reason,
  and asks for rules in ascending order.
- `Policer`, `PoliFw`, `Hhh`: an idle entry is forgotten and comes back with a full
  bucket. The policers forget it after `burst / rate` whole seconds, so every
  pause may give `Unearned` bytes that the rate has not earned. With the default
  configuration of `vigpol` (rate 1000000, burst 100000, `policer_config.c:13`)
  `burst / rate` is 0: an entry is forgotten by the first packet a tick later, the
  next packet finds a full bucket, and the rate limits nothing. `Conforms` allows
  for exactly that; it is the usual bound only for a burst of whole seconds.
  In the other direction refills are rounded down to bytes while time advances, so
  a bucket that is asked often fills more slowly than the rate, or never:
  `OnlyExcessDropped` and `HhhExact` allow a fraction of a byte for each.
- `PoliFw`: each half records what the other may drop. When what goes out is
  policed (`vigpoliupfw`), a packet that the policer drops still opens its flow,
  and `PoliFwBothHold` speaks of the flows the firewall passed; when what comes in
  is policed (`vigpolifw`), of those that really left. The assertion that both
  choose the same device holds for one internal and one external device, which
  `vigpolifw/README.md` assumes and the instances have; it is not checked beyond.
- `Psd`: at an index not below its counter the cleanup erases nothing. Ports from
  when a source was tracked before then pass without being counted, beyond
  `max_ports`; `PsdScanStopped` leaves them out (`stale`), `PortsExact` holds
  without such reuse only.
- `Cht`: `ChtSpreads` is about prime heights, the precondition in `cht.h`. The
  option of the balancer accepts any positive height.
- `Nat`: `start_port` 0 and a table of all ports, as shipped.
- `Cl`: only the first row of the sketch is counted; `ClLimitExact` is about
  clients that the rows do not mix up. A refused flow keeps its entry, and its next
  packet passes as one of a known flow; the property is about first packets.
- `Startup`: the port scan detector does not start with its defaults. It accepts
  only powers of two for the number of ports (`psd_config.c:87`), the default is
  60 (`psd_config.c:14`), and `map_allocate` refuses the product. `DefaultsStart`
  says so; the Makefile passes 64. NFs without defaults exit in `nf_init` when a
  capacity is left out, for zero is no power of two. With a single device the
  default LAN device would not exist; `StartupAssumption` asks for two.
  `StartsSound` is about devices and containers: a policing firewall without
  `--rate` starts with a rate of 0.
- `StandIns`: the stand-in of the expirator leaves the keys of the map's
  stand-in alone, so expiry must be the first call after the border. It is, in
  every NF, and the model has that order.
- `RssConfig`: the keys are right for logs in which an object has keys of one
  length, a device reads fields in one order, and keys of different fields are
  used on one device only (`Nested`). Otherwise the first constraint a device
  meets, which only sets its fields and is not kept, or the filter above, loses
  some. `check_incompatible_dependencies` looks twice at the first access, and
  writes are compared with reads of the same kind of structure, not of the same
  object.
- `Htm`, `Launch`: packets counted before the master clears the counters are
  left out. `motivation/locks.c` initialises its spin lock at the same moment; if
  an lcore holds it then, two lcores count at once, and `CountsExact` makes no
  claim after that. Its `nf_init` returns no value on other lcores, so the model
  lets it fail there. `motivation/unprotected.c` is meant to lose counts.

## 7. Not modelled, and what comes next

- `polinat`, `poliupnat` do not compile. `nop`, `fwd`, `resize` and the template
  have no state (the options of the first two are in `Startup`).
  `vignat-parallelizable` is `vignat` without one rejuvenation, and
  `vigbridge-static` is `vigbridge` without learning; their options and
  containers are in `Startup`, their `nf_process` has no instance.
- The validator, the code generators and the build tools are
  compilers and scripts; NFOS is boot code and device access.
- Still open, in order: the stand-ins of packets, of the sketch and of the
  hardware (`libvig/models/hardware.c`); the rules file of the bridge
  (`bridge_main.c:104`); the replay of `call_path_hitter.c`; the other containers with locks or transactions; the
  parser of access logs; products of options that
  exceed 32 bits (`sketch.c`, `vector.c:169`), which the arguments do not reach;
  proofs for `Nat`, `Bridge` and `Htm` on the lemmas that exist.
