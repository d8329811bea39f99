------------------------------ MODULE ConfigLoader ------------------------------
(***************************************************************************)
(* Config::loadFromFile(): the file is read as JSON, its settings replace  *)
(* the defaults, the chiplet mappings are computed, then the result is     *)
(* validated.  An exception on the way rejects the file; a division by     *)
(* zero ends the program (SIGFPE).                                         *)
(***************************************************************************)
EXTENDS Latency, ConfigFile, JSONGrammar

CONSTANT Texts   \* the contents of the files

ASSUME TextsAssumption == Texts \subseteq Seq(Token)

VARIABLES
    config,    \* the Config object
    outcome    \* how far loadFromFile() has come, or how it ended

vars == <<readerVars, config, outcome>>

Stages == {"reading", "mapping", "validating"}
Ends == {"accepted", "rejected", "crashed"}

Init ==
    /\ \E t \in Texts : ReaderInit(t)
    /\ config = DefaultConfig
    /\ outcome = "reading"

(* parseFile(), one token or turn of a loop at a time.                     *)
ParseFile ==
    /\ outcome = "reading"
    /\ ReadToken
    /\ UNCHANGED <<config, outcome>>

FieldsSet(read) == {s.field : s \in read}

(* The settings that are there replace the defaults; a root that is not an *)
(* object and a value that does not convert throw.                         *)
Read ==
    LET read == SettingsIn(root)
        readable == /\ mode = "done"
                    /\ TypeOf(root) = "object"
                    /\ \A s \in read : Converts(s.kind, ValueOf(root, s))
        new(f) == LET s == CHOOSE s \in read : s.field = f
                  IN  Converted(s.kind, ValueOf(root, s))
    IN  /\ outcome = "reading"
        /\ mode \in {"done", "failed"}
        /\ \/ /\ ~readable
              /\ outcome' = "rejected"
              /\ UNCHANGED config
           \/ /\ readable
              /\ config' = [f \in DOMAIN config |->
                               IF f \in FieldsSet(read) THEN new(f)
                               ELSE config[f]]
              /\ outcome' = "mapping"
        /\ UNCHANGED readerVars

(* vector::resize() with a negative count throws a length_error ...        *)
CannotResize(count) == count < 0

(* ... and the loop over the elements divides by numChiplets.              *)
DividesByZero(count) == count > 0 /\ config.numChiplets = 0

InitializeChipletMappings ==
    LET c == config
    IN  /\ outcome = "mapping"
        /\ \/ /\ \/ CannotResize(c.numCores)
                 \/ ~DividesByZero(c.numCores) /\ CannotResize(c.numMemoryBanks)
              /\ outcome' = "rejected"
              /\ UNCHANGED config
           \/ /\ ~CannotResize(c.numCores)
              /\ \/ DividesByZero(c.numCores)
                 \/ DividesByZero(c.numMemoryBanks)
              /\ outcome' = "crashed"
              /\ UNCHANGED config
           \/ /\ ~CannotResize(c.numCores) /\ ~CannotResize(c.numMemoryBanks)
              /\ ~DividesByZero(c.numCores) /\ ~DividesByZero(c.numMemoryBanks)
              /\ config' =
                    [c EXCEPT
                        !.coreToChiplet = Mapping(c.numCores, c.numChiplets),
                        !.bankToChiplet =
                            Mapping(c.numMemoryBanks, c.numChiplets)]
              /\ outcome' = "validating"
        /\ UNCHANGED readerVars

Validate ==
    /\ outcome = "validating"
    /\ outcome' = IF Valid(config) THEN "accepted" ELSE "rejected"
    /\ UNCHANGED <<readerVars, config>>

(* loadFromFile() has returned or the program has ended.                   *)
Ended == outcome \in Ends /\ UNCHANGED vars

Next == ParseFile \/ Read \/ InitializeChipletMappings \/ Validate \/ Ended

Spec == Init /\ [][Next]_vars
-----------------------------------------------------------------------------
CONSTANTS
    SomeAddresses,   \* addresses of requests
    MaxJudged        \* bound: the longest text held against the grammar

ASSUME SomeAddressesAssumption ==
    /\ SomeAddresses \subseteq 0 .. AddressSpace - 1
    /\ MaxJudged \in Nat

(* The reader takes every JSON text, whatever comes after it, and of the   *)
(* others only those that end where its loops look for the end of the      *)
(* text; it never closes a container by the wrong bracket, or takes a key, *)
(* a colon or a comma too few or too many.                                 *)
ReaderVerdict ==
    mode \in {"done", "failed"} /\ Len(text) <= MaxJudged =>
        (mode = "done" <=>
            \/ \E k \in 1 .. Len(text) : WellFormed(SubSeq(text, 1, k))
            \/ CutOff(text))

(* What an accepted file sets is what its text says, up to the bracket     *)
(* that ends the first value: the last member of that name, in the last    *)
(* section of that name and, if that is not an object, nowhere; what is    *)
(* not set keeps its default.  Of a number an int keeps what stands before *)
(* the point, and so does an unsigned size, to which a number below zero   *)
(* is one below the end of the address space.                              *)
ConfigFollowsText ==
    outcome = "accepted" =>
        LET t == Compact(text)
            end(k, depth) == Min({n \in k .. Len(t) :
                                     t[n][1] = "}" /\ DepthOf(t, n) = depth}
                                 \cup {Len(t)})
            topLevel(name) == MemberValues(t, name, 1, 1, end(1, 1))
            places(s) ==
                LET sections == topLevel(s.section)
                    at == Max(sections)
                IN  IF s.section = "" THEN topLevel(s.key)
                    ELSE IF sections = {} THEN {}
                    ELSE IF t[at][1] # "{" THEN {}
                    ELSE MemberValues(t, s.key, 2, at, end(at, 2))
            value(s) == t[Max(places(s))][2]
            whole(n, tenths) == \E rest \in -9 .. 9 :
                tenths = 10 * n + rest /\ tenths * rest >= 0
            says(s, n) ==
                IF s.kind = "int" THEN whole(n, Contents(value(s)))
                ELSE IF s.kind = "size"
                THEN \E m \in {n, n - AddressSpace} : whole(m, Contents(value(s)))
                ELSE n = Converted(s.kind, value(s))
        IN  \A s \in Settings :
                IF places(s) = {}
                THEN config[s.field] = DefaultConfig[s.field]
                ELSE /\ Converts(s.kind, value(s))
                     /\ says(s, config[s.field])

(* An accepted configuration is one the memory system can work with:       *)
(* whatever core asks for whatever address, the bank exists and the answer *)
(* is not earlier than the request; and the cache has room for a line.     *)
AcceptedIsUsable ==
    outcome = "accepted" =>
        /\ \A core \in 0 .. config.numCores - 1, a \in SomeAddresses :
              /\ BankIndex(config, a) \in BankIds(config)
              /\ PossibleLatencies(config, core, a) \subseteq Nat
        /\ config.cacheEnabled => config.cacheSize > 0
=============================================================================
