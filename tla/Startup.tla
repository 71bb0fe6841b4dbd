------------------------------ MODULE Startup ------------------------------
(***************************************************************************)
(* What a network function does before its first packet: MAIN of nf.c      *)
(* reads the options (nf_config_init), creates the pool, starts every      *)
(* device and calls nf_init, which allocates the containers with the       *)
(* capacities the options gave.  Every NF has a table of options, each     *)
(* with the width of its field, the values its test accepts and its        *)
(* default; an NF without defaults leaves the fields zero.                 *)
(***************************************************************************)
EXTENDS Integers, Sequences, FiniteSets

CONSTANTS nb_devices,
          Arguments,       \* the numbers options are given
          MaxOptions       \* bound: options on the command line

StartupAssumption == /\ nb_devices \in Nat \ {0, 1} /\ Arguments \subseteq Int
                     /\ MaxOptions \in Nat

(* The widths of the fields.  The two larger ones are 32 and 64 in the     *)
(* code and 30 here, so that TLC can count.                                *)
Bits == [u8 |-> 8, u16 |-> 16, u32 |-> 30, u64 |-> 30]

MaxU32 == 2 ^ Bits.u32

(* A product of two 32-bit numbers, computed by halves for the same reason. *)
Times(a, b) ==
  LET half  == 2 ^ (Bits.u32 \div 2)
      cross == (a \div half) * (b % half) + (a % half) * (b \div half)
  IN  ((a % half) * (b % half) + half * (cross % half)) % MaxU32

Option(width, accepts, default) == [width |-> width, accepts |-> accepts, default |-> default]

Any      == Nat
Positive == Nat \ {0}
Device   == 0 .. (nb_devices - 1)
Percent  == 1 .. 100
Pow2     == {2 ^ n : n \in 0 .. (Bits.u32 - 1)}      \* is_power_of_2

fw_options ==
  [eth_dest |-> Option("u32", Device, 0), expiration_time |-> Option("u32", Positive, 0),
   max_flows |-> Option("u32", Positive, 0), wan |-> Option("u16", Device, 0)]

nat_options ==
  [eth_dest |-> Option("u32", Device, 0), expiration_time |-> Option("u32", Positive, 0),
   max_flows |-> Option("u32", Positive, 0), wan |-> Option("u16", Device, 0),
   lan_main |-> Option("u16", Device, 0), start_port |-> Option("u16", Any, 0)]

lb_options ==
  [flow_expiration |-> Option("u32", Positive, 0), flow_capacity |-> Option("u32", Positive, 0),
   backend_capacity |-> Option("u32", Positive, 0), cht_height |-> Option("u32", Positive, 0),
   backend_expiration |-> Option("u32", Positive, 0), wan |-> Option("u16", Device, 0)]

bridge_options ==
  [expiration_time |-> Option("u32", Positive, 300000000),
   dyn_capacity |-> Option("u32", Positive, 128)]

policer_options ==
  [lan |-> Option("u16", Device, 1), wan |-> Option("u16", Device, 0),
   rate |-> Option("u64", Positive, 1000000), burst |-> Option("u64", Positive, 100000),
   dyn_capacity |-> Option("u32", Positive, 128)]

cl_options ==
  [lan |-> Option("u16", Device, 1), wan |-> Option("u16", Device, 0),
   max_flows |-> Option("u32", Pow2, 65536), sketch_capacity |-> Option("u32", Positive, 65536),
   max_clients |-> Option("u16", Any, 60),
   flow_expiration |-> Option("u64", Positive, 1000000),
   client_expiration |-> Option("u64", Positive, 10000000)]

hhh_options ==
  [lan |-> Option("u16", Device, 1), wan |-> Option("u16", Device, 0),
   link_capacity |-> Option("u64", Positive, 10000000), threshold |-> Option("u8", Percent, 50),
   subnets_mask |-> Option("u32", Any, 8421504), burst |-> Option("u64", Positive, 100000),
   dyn_capacity |-> Option("u32", Positive, 128)]

psd_options ==
  [lan |-> Option("u16", Device, 1), wan |-> Option("u16", Device, 0),
   capacity |-> Option("u32", Pow2, 65536), max_ports |-> Option("u32", Pow2, 60),
   expiration_time |-> Option("u32", Positive, 1000000)]

polifw_options ==
  [eth_dest |-> Option("u32", Device, 0), expiration_time |-> Option("u32", Positive, 0),
   max_flows |-> Option("u32", Positive, 0), wan |-> Option("u16", Device, 0),
   lan |-> Option("u16", Device, 0), rate |-> Option("u64", Positive, 0),
   burst |-> Option("u64", Positive, 0), dyn_capacity |-> Option("u32", Positive, 0)]

fwd_options ==
  [eth_dest |-> Option("u32", Device, 0), lan |-> Option("u16", Device, 0),
   wan |-> Option("u16", Device, 0)]

nop_options == [lan |-> Option("u16", Device, 0), wan |-> Option("u16", Device, 0)]

(* The variants repeat the options of what they vary.                      *)
nat_parallelizable_options == nat_options

bridge_static_options == bridge_options

poliupfw_options == polifw_options

Functions == {"fw", "nat", "nat_parallelizable", "lb", "bridge", "bridge_static", "policer",
              "cl", "hhh", "psd", "polifw", "poliupfw", "fwd", "nop"}

OptionsOf(f) ==
  CASE f = "fw"      -> fw_options
    [] f = "nat"     -> nat_options
    [] f = "lb"      -> lb_options
    [] f = "bridge"  -> bridge_options
    [] f = "policer" -> policer_options
    [] f = "cl"      -> cl_options
    [] f = "hhh"     -> hhh_options
    [] f = "psd"     -> psd_options
    [] f = "polifw"  -> polifw_options
    [] f = "fwd"     -> fwd_options
    [] f = "nop"     -> nop_options
    [] f = "nat_parallelizable" -> nat_parallelizable_options
    [] f = "bridge_static"      -> bridge_static_options
    [] f = "poliupfw"           -> poliupfw_options
-----------------------------------------------------------------------------
Struct       == [kind |-> "struct", capacity |-> 1]
Unchecked    == [kind |-> "unchecked", capacity |-> 1]     \* used without a look at the answer
Map(c)       == [kind |-> "map", capacity |-> c]
Vector(c)    == [kind |-> "vector", capacity |-> c]
DChain(c)    == [kind |-> "dchain", capacity |-> c]
Trap         == [kind |-> "trap", capacity |-> 1]          \* an assertion that fails

(* cht_fill_cht: the work array of a negative size is refused; a height    *)
(* below two divides by zero, and a product that was cut makes the loops   *)
(* write past the arrays.                                                  *)
Fill(depth, height) ==
  [capacity |-> height,
   kind |-> IF Times(depth, height) >= MaxU32 \div 2 THEN "too large"
            ELSE IF height < 2 \/ (depth > 0 /\ height > MaxU32 \div depth) THEN "trap"
            ELSE "fill"]

fw_containers(c) ==
  <<Struct, Struct, Map(c.max_flows), Vector(c.max_flows), Vector(c.max_flows),
    DChain(c.max_flows)>>

nat_containers(c) == <<Struct, Struct, Map(c.max_flows), Vector(c.max_flows), DChain(c.max_flows)>>

lb_containers(c) ==
  <<Unchecked, Struct,
    Map(c.flow_capacity), Vector(c.flow_capacity), DChain(c.flow_capacity),
    Vector(c.flow_capacity),
    Map(c.backend_capacity), Vector(c.backend_capacity), Vector(c.backend_capacity),
    DChain(c.backend_capacity),
    Vector(Times(c.backend_capacity, c.cht_height)), Fill(c.backend_capacity, c.cht_height)>>

bridge_containers(c) ==
  <<Struct, Map(c.dyn_capacity), Vector(c.dyn_capacity), Vector(c.dyn_capacity),
    Map(8192), Vector(8192), DChain(c.dyn_capacity)>>

policer_containers(c) ==
  <<Struct, Map(c.dyn_capacity), Vector(c.dyn_capacity), DChain(c.dyn_capacity),
    Vector(c.dyn_capacity)>>

polifw_containers(c) == fw_containers(c) \o Tail(policer_containers(c))

nat_parallelizable_containers(c) == nat_containers(c)

bridge_static_containers(c) == bridge_containers(c)

poliupfw_containers(c) == polifw_containers(c)

SKETCH_HASHES == 8

find_next_power_of_2_bigger_than(d) ==
  IF d = 0 THEN 1 ELSE CHOOSE n \in Pow2 : d <= n /\ n < 2 * d

(* The product is cut to 32 bits before it is rounded up.                  *)
sketch_allocate(capacity) ==
  LET d     == Times(capacity, SKETCH_HASHES)
      total == find_next_power_of_2_bigger_than(d)
  IN  IF d > MaxU32 \div 2 THEN <<Struct, Trap>>
      ELSE <<Struct, Map(total), Vector(total), Vector(total)>>
             \o [i \in 1 .. SKETCH_HASHES |-> DChain(capacity)]

cl_containers(c) ==
  <<Struct, Map(c.max_flows), Vector(c.max_flows), DChain(c.max_flows)>>
    \o sketch_allocate(c.sketch_capacity)

calculate_n_subnets[mask \in Nat] ==
  IF mask = 0 THEN 0 ELSE (mask % 2) + calculate_n_subnets[mask \div 2]

(* Four arrays of pointers, then four containers for each prefix length.   *)
hhh_containers(c) ==
  LET subnet == <<Map(c.dyn_capacity), DChain(c.dyn_capacity), Vector(c.dyn_capacity),
                  Vector(c.dyn_capacity)>>
      n_subnets == calculate_n_subnets[c.subnets_mask]
  IN  <<Struct>> \o [i \in 1 .. (IF n_subnets = 0 THEN 0 ELSE 4) |-> Unchecked]
        \o [i \in 1 .. (4 * n_subnets) |-> subnet[((i - 1) % 4) + 1]]

(* nf_init keeps 16 bits of the number of ports.                           *)
psd_containers(c) ==
  LET max_ports == c.max_ports % (2 ^ Bits.u16)
      ports     == Times(c.capacity, max_ports)
  IN  <<Struct, Map(c.capacity), Vector(c.capacity), Vector(c.capacity), DChain(c.capacity),
        Map(ports), Vector(ports)>>

ContainersOf(f, c) ==
  CASE f = "fw"      -> fw_containers(c)
    [] f = "nat"     -> nat_containers(c)
    [] f = "lb"      -> lb_containers(c)
    [] f = "bridge"  -> bridge_containers(c)
    [] f = "policer" -> policer_containers(c)
    [] f = "cl"      -> cl_containers(c)
    [] f = "hhh"     -> hhh_containers(c)
    [] f = "psd"     -> psd_containers(c)
    [] f = "polifw"  -> polifw_containers(c)
    [] f = "nat_parallelizable" -> nat_parallelizable_containers(c)
    [] f = "bridge_static"      -> bridge_static_containers(c)
    [] f = "poliupfw"           -> poliupfw_containers(c)
    [] f \in {"fwd", "nop"} -> <<>>

(* Only the bits are looked at, which zero passes.                         *)
map_allocate_refuses_odd(capacity) == capacity \notin Pow2 \cup {0} \/ capacity >= MaxU32 \div 2

(* map_allocate, built with CAPACITY_POW2, refuses what is not a power of  *)
(* two and a capacity that is negative as an int; the others take any.     *)
map_allocate_refuses(capacity) == capacity \notin Pow2 \/ capacity >= MaxU32 \div 2

Refused(x) == x.kind = "too large" \/ (x.kind = "map" /\ map_allocate_refuses(x.capacity))

Traps(x) == x.kind = "trap"
-----------------------------------------------------------------------------
VARIABLES nf,
          pc,           \* "options", "pool", "devices", "init", "loop", "exit" or "crash"
          config,       \* option -> value
          given,        \* the options read so far
          device,       \* the devices started
          mishap        \* history: a resource or a device failed, or an option was refused

vars == <<nf, pc, config, given, device, mishap>>

Init == /\ nf \in Functions
        /\ pc = "options"
        /\ config = [o \in DOMAIN OptionsOf(nf) |-> OptionsOf(nf)[o].default]
        /\ given = 0 /\ device = 0 /\ mishap = FALSE

(* What strtoimax returns, cut to the width of the field.                  *)
nf_util_parse_int(argument, width) == argument % (2 ^ Bits[width])

(* One turn of the loop over getopt_long; the test comes after the store.  *)
ParseOption(o, argument) ==
  LET option == OptionsOf(nf)[o]
      value  == nf_util_parse_int(argument, option.width)
  IN  /\ pc = "options" /\ given < MaxOptions
      /\ config' = [config EXCEPT ![o] = value]
      /\ given' = given + 1
      /\ IF value \in option.accepts THEN UNCHANGED <<pc, mishap>>
         ELSE pc' = "exit" /\ mishap' = TRUE
      /\ UNCHANGED <<nf, device>>

(* An unknown option, text that is no number, or rte_eal_init before.      *)
ParseError == /\ pc = "options" /\ pc' = "exit" /\ mishap' = TRUE
              /\ UNCHANGED <<nf, config, given, device>>

EndOptions == /\ pc = "options" /\ pc' = "pool"
              /\ UNCHANGED <<nf, config, given, device, mishap>>

CreatePool == /\ pc = "pool"
              /\ \/ pc' = "devices" /\ UNCHANGED mishap
                 \/ pc' = "exit" /\ mishap' = TRUE
              /\ UNCHANGED <<nf, config, given, device>>

(* A device that does not become promiscuous counts as started.            *)
nf_init_device == /\ pc = "devices" /\ device < nb_devices
                  /\ \/ device' = device + 1 /\ UNCHANGED <<pc, mishap>>
                     \/ pc' = "exit" /\ mishap' = TRUE /\ UNCHANGED device
                  /\ UNCHANGED <<nf, config, given>>

WorkerMain == /\ pc = "devices" /\ device = nb_devices /\ pc' = "init"
              /\ UNCHANGED <<nf, config, given, device, mishap>>

(* Every container is made, or the first one that cannot be ends the       *)
(* program: because of its capacity, or for want of memory.                *)
Endings(containers) ==
  LET fail == {k \in DOMAIN containers : Refused(containers[k]) \/ Traps(containers[k])}
      End(k) == [mishap |-> k \notin fail,
                 pc |-> IF Traps(containers[k]) \/ containers[k].kind = "unchecked"
                        THEN "crash" ELSE "exit"]
  IN  {End(k) : k \in {n \in DOMAIN containers : \A m \in fail : n <= m}}
        \cup (IF fail = {} THEN {[mishap |-> FALSE, pc |-> "loop"]} ELSE {})

nf_init == /\ pc = "init"
           /\ \E end \in Endings(ContainersOf(nf, config)) : pc' = end.pc /\ mishap' = end.mishap
           /\ UNCHANGED <<nf, config, given, device>>

(* The packet loop, and the end of the program.                            *)
Running == pc \in {"loop", "exit", "crash"} /\ UNCHANGED vars

Next == \/ \E o \in DOMAIN config, a \in Arguments : ParseOption(o, a)
        \/ ParseError \/ EndOptions \/ CreatePool \/ nf_init_device \/ WorkerMain
        \/ nf_init \/ Running

Spec == Init /\ [][Next]_vars
-----------------------------------------------------------------------------
DeviceOptions == {"eth_dest", "wan", "lan", "lan_main"}

(* The loop starts with everything in place, whatever the command line:    *)
(* all the devices are up, the devices of the configuration exist although *)
(* the options are cut to 16 bits, and every container has room, so that a *)
(* capacity left at zero, because its option was left out or because the   *)
(* number of ports was cut, never gets here.  A hash map has a power of    *)
(* two of slots, as its masks need, and the table of the balancer a height *)
(* that cht_fill_cht can divide by.                                        *)
StartsSound ==
  pc = "loop" =>
    /\ device = nb_devices /\ ~mishap
    /\ \A o \in DOMAIN config \cap DeviceOptions : config[o] \in Device
    /\ \A k \in DOMAIN ContainersOf(nf, config) :
         LET x == ContainersOf(nf, config)[k]
         IN  x.capacity > 0 /\ (x.kind = "map" => x.capacity \in Pow2)
    /\ nf = "lb" => config.cht_height > 1

(* With the defaults alone a function starts unless a resource or a device *)
(* fails; all but the port scan detector, whose 60 ports make the capacity *)
(* of its second map no power of two, which map_allocate refuses.          *)
DefaultsStart ==
  (given = 0 /\ ~mishap) =>
    /\ nf \in {"bridge", "bridge_static", "policer", "cl", "hhh", "fwd", "nop"}
         => pc \notin {"exit", "crash"}
    /\ nf = "psd" => pc # "loop"
=============================================================================
