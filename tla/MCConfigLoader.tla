----------------------------- MODULE MCConfigLoader -----------------------------
(***************************************************************************)
(* Files for TLC: short sequences of tokens, most of them no JSON text at  *)
(* all, and whole configurations, good and bad.                            *)
(***************************************************************************)
EXTENDS ConfigLoader

MCAddresses == {0, 64, 192, 65600, 131071}

MCHexStrings == [n \in {"0x40", "0x80000000"} |-> 64]

(* TOKENS                                                                  *)
Scalar(v) == <<"value", v>>
Space == <<"space">>

Punctuation == {<<k>> : k \in {"{", "}", "[", "]", ":", ","}}
Scalars == {Scalar(String("cores")), Scalar(Number(10))}

Texts5 == UNION {[1 .. n -> Punctuation \cup Scalars] : n \in 0 .. 4}
             \cup {<<<<"{">>, Scalar(String("cores"))>> \o t :
                       t \in [1 .. 4 -> Punctuation \cup Scalars]}

TextsWithSpace ==
    UNION {[1 .. n -> {<<"{">>, <<"}">>, <<",">>, <<"[">>, Space, <<"other">>,
                       Scalar(Number(10))}] : n \in 1 .. 4}

-----------------------------------------------------------------------------
(* CONFIGURATIONS                                                          *)
Joined(parts) ==
    FoldLeft(LAMBDA t, part : IF t = <<>> THEN part ELSE t \o <<<<",">>>> \o part,
             <<>>, parts)

Object(members) == <<<<"{">>>> \o Joined(members) \o <<<<"}">>>>

Member(key, value) == <<Scalar(String(key)), <<":">>>> \o value

Tenths(key, n) == Member(key, <<Scalar(Number(n))>>)
Num(key, n) == Tenths(key, 10 * n)
Str(key, s) == Member(key, <<Scalar(String(s))>>)
Flag(key) == Member(key, <<Scalar(Boolean(TRUE))>>)

Cache(size, latency, ports) ==
    Member("cache", Object(<<
        Flag("enabled"), Num("size_bytes", size),
        Num("hit_latency_cycles", latency), Num("port_limit", ports)>>))

Tcm(size, latency) ==
    Member("dtcm", Object(<<
        Flag("enabled"), Str("base_address", "0x40"), Num("size_bytes", size),
        Num("latency_cycles", latency)>>))

Link(latency, width) ==
    Member("interconnect", Object(<<
        Num("base_latency_cycles", latency),
        Num("link_width_bytes_per_cycle", width)>>))

Penalty(n) == Member("chiplet", Object(<<Num("remote_penalty_cycles", n)>>))

Bank(members) == Member("memory_banks", Object(members))

File(cores, chiplets, others) ==
    Object(<<Num("cores", cores), Num("chiplets", chiplets)>> \o others)

(* Further settings, one list of them at a time.                           *)
Others ==
    {<<>>, <<Cache(4, 1, 1)>>, <<Cache(0, 1, 1)>>, <<Cache(-1, 1, 1)>>,
     <<Cache(4, -1, 1)>>, <<Cache(4, 1, 0)>>,
     <<Tcm(64, 1)>>, <<Tcm(0, 1)>>, <<Tcm(64, -1)>>,
     <<Bank(<<Num("service_latency_cycles", -1)>>)>>,
     <<Bank(<<Num("port_limit", 0)>>)>>,
     <<Bank(<<Num("count", 2), Str("bank_index_function", "xorfold")>>),
       Penalty(20)>>,
     <<Link(-1, 8)>>, <<Link(0, 0)>>, <<Link(0, 48)>>, <<Penalty(-1)>>,
     <<Num("frequency_ghz", 2)>>, <<Num("frequency_ghz", 0)>>,
     <<Tenths("frequency_ghz", 5)>>, <<Tenths("cores", 19)>>,
     <<Member("interconnect", Object(<<
         Tenths("link_width_bytes_per_cycle", 9)>>))>>,
     <<Member("chiplet", Object(<<Tenths("remote_penalty_cycles", -9)>>))>>,
     <<Member("dtcm", Object(<<Flag("enabled"), Tenths("size_bytes", -15)>>))>>,
     <<Str("scheduling_policy", "lottery")>>,
     <<Str("scheduling_policy", "rr"), Str("scheduling_policy", "fifo")>>,
     <<Num("cores", 2), Str("cores", "four")>>}

Counted ==
    {File(cores, chiplets, <<Bank(<<Num("count", banks)>>)>> \o others) :
        cores \in {-1, 0, 1, 5}, banks \in {-1, 0, 1, 3},
        chiplets \in {-1, 0, 1, 2}, others \in Others}

(* As in minimal_config.json, "memory_banks" is there as a number and as a *)
(* section; in either order, with other members between and in sections    *)
(* the reader does not know.                                               *)
Repeated ==
    {Object(<<Num("cores", 2), m[1], Bank(<<Num("count", 2)>>), m[2],
              Member("notes", Object(<<Num("cores", 7), Num("count", 9)>>))>>) :
        m \in {<<Num("memory_banks", 4), Num("chiplets", 2)>>,
               <<Num("chiplets", 2), Num("memory_banks", 4)>>,
               <<Bank(<<Num("service_latency_cycles", 3)>>), Penalty(1)>>,
               <<Penalty(1), Bank(<<Num("service_latency_cycles", 3)>>)>>}}

(* Complete, followed by something else or by another configuration, and   *)
(* cut off after the banks.                                                *)
Cuts ==
    UNION {{t, t \o <<Space, <<"other">>>>, t \o File(4, 2, <<Penalty(1)>>),
            Front(t) \o <<<<",">>>>, Front(t)} :
              t \in {File(2, 1, <<Bank(<<Num("count", 3)>>)>>)}}

MCTexts == Texts5 \cup TextsWithSpace \cup Counted \cup Repeated \cup Cuts
=============================================================================
