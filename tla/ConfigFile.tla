------------------------------- MODULE ConfigFile -------------------------------
(***************************************************************************)
(* What loadFromFile() reads of a JSON value: the settings, each a key in  *)
(* a section of the file or at its top level (the section ""), the field   *)
(* of the configuration it sets and how its value is converted.            *)
(*                                                                         *)
(* Names are given in lower case, as the code makes them.                  *)
(***************************************************************************)
EXTENDS JSONReader, Address

CONSTANT HexStrings   \* the strings asHexAddress() converts, to addresses

Setting(section, key, field, kind) ==
    [section |-> section, key |-> key, field |-> field, kind |-> kind]

Settings ==
    {Setting("", "cores", "numCores", "int"),
     Setting("", "chiplets", "numChiplets", "int"),
     Setting("", "scheduling_policy", "schedulingPolicy", "policy"),
     Setting("cache", "enabled", "cacheEnabled", "bool"),
     Setting("cache", "size_bytes", "cacheSize", "int"),
     Setting("cache", "hit_latency_cycles", "cacheHitLatency", "int"),
     Setting("cache", "port_limit", "cachePortLimit", "int"),
     Setting("dtcm", "enabled", "dtcmEnabled", "bool"),
     Setting("dtcm", "base_address", "dtcmBase", "hex"),
     Setting("dtcm", "size_bytes", "dtcmSize", "size"),
     Setting("dtcm", "latency_cycles", "dtcmLatency", "int"),
     Setting("memory_banks", "count", "numMemoryBanks", "int"),
     Setting("memory_banks", "service_latency_cycles", "bankServiceLatency",
             "int"),
     Setting("memory_banks", "bank_index_function", "bankIndexFn", "index"),
     Setting("memory_banks", "conflict_policy", "bankConflictPolicy",
             "conflict"),
     Setting("memory_banks", "port_limit", "bankPortLimit", "int"),
     Setting("interconnect", "topology", "interconnectTopology", "topology"),
     Setting("interconnect", "base_latency_cycles", "interconnectLatency",
             "int"),
     Setting("interconnect", "link_width_bytes_per_cycle",
             "interconnectLinkWidth", "int"),
     Setting("chiplet", "remote_penalty_cycles", "remoteChipletPenalty",
             "int"),
     Setting("", "frequency_ghz", "frequencyGHz", "double")}

(* The strings a setting of the kind may have, and what they mean.         *)
Names ==
    [policy |->
        [fifo |-> "FIFO",
         roundrobin |-> "RoundRobin", round_robin |-> "RoundRobin",
         shortestopsfirst |-> "ShortestOpsFirst",
         shortest_ops_first |-> "ShortestOpsFirst"],
     index |->
        [addr_mod_n |-> "AddressModN", addressmodn |-> "AddressModN",
         xor_fold |-> "XorFold", xorfold |-> "XorFold"],
     conflict |->
        [serialize |-> "Serialize", queue |-> "Queue",
         extra_delay |-> "ExtraDelay", extradelay |-> "ExtraDelay"],
     topology |-> [bus |-> "Bus", mesh |-> "Mesh"],
     hex |-> HexStrings]

NumberKinds == {"int", "size", "double"}

(* Whether the value can be converted; the code throws otherwise.          *)
Converts(kind, v) ==
    \/ kind \in NumberKinds /\ TypeOf(v) = "number"
    \/ kind = "bool" /\ TypeOf(v) = "boolean"
    \/ /\ kind \in DOMAIN Names
       /\ TypeOf(v) = "string"
       /\ Contents(v) \in DOMAIN Names[kind]

(* A number is a double.  It is given in tenths here, and so is a field    *)
(* that is a double; a cast to an integer drops the fraction.              *)
Truncated(tenths) ==
    IF tenths < 0 THEN -((-tenths) \div 10) ELSE tenths \div 10

(* A size below zero, cast to an unsigned integer, wraps around.           *)
Converted(kind, v) ==
    CASE kind = "int" -> Truncated(Contents(v))
      [] kind = "size" -> Truncated(Contents(v)) % AddressSpace
      [] kind \in DOMAIN Names -> Names[kind][Contents(v)]
      [] OTHER -> Contents(v)

(* A section that is missing, or is not an object, has no keys.            *)
SectionOf(v, section) ==
    CASE section = "" -> v
      [] section # "" /\ HasKey(v, section) -> Get(v, section)
      [] OTHER -> Null

SettingsIn(v) == {s \in Settings : HasKey(SectionOf(v, s.section), s.key)}

ValueOf(v, s) == Get(SectionOf(v, s.section), s.key)
=============================================================================
