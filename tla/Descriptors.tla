---------------------------- MODULE Descriptors ----------------------------
(***************************************************************************)
(* libusb_get_active_config_descriptor, libusb_get_max_packet_size and     *)
(* libusb_free_config_descriptor of libusb 1.0.8 (descriptor.c, core.c):   *)
(* the bytes a device sends as its configuration become a tree of          *)
(* allocated structures, one descriptor at a time.  Nothing the device     *)
(* says about lengths and counts need be true, and malloc may fail at      *)
(* every step.                                                             *)
(*                                                                         *)
(* Bytes are kept as the sequence of descriptors they are made of, with    *)
(* their lengths, and the number of bytes the parser believes are left.    *)
(* What lies behind the buffer is any byte.                                *)
(*                                                                         *)
(* Places (place): start, configuration, skip (parse_configuration),       *)
(* altsetting iskip next (parse_interface), endpoint eskip                 *)
(* (parse_endpoint), left find got (the caller), done.                     *)
(***************************************************************************)
EXTENDS Integers, Sequences, FiniteSets, SequencesExt

CONSTANTS Raws,          \* what devices send
          Calls,         \* subset of {"get", "max_packet_size"}
          Endpoints,     \* endpoint addresses that are asked for
          MaxInterfaces, \* USB_MAXINTERFACES, scaled
          MaxEndpoints,  \* USB_MAXENDPOINTS, scaled
          MaxFailures    \* bound: failing reads and allocations

Types == {"device", "config", "interface", "endpoint", "other"}
\* num and addr are the fifth and the third byte: bNumEndpoints of an
\* interface, bEndpointAddress of an endpoint.
Descriptor == [type : Types, len : Nat, num : Nat, addr : Nat, alt : Nat]
Sum(w) == LET upto[i \in 0..Len(w)] == IF i = 0 THEN 0 ELSE upto[i - 1] + w[i]
          IN  upto[Len(w)]
Bytes(s) == Sum([i \in DOMAIN s |-> s[i].len])

\* A configuration: wTotalLength, bNumInterfaces and what follows its own
\* descriptor of 9 bytes, at least as far as wTotalLength goes.
ASSUME RawsAssumption ==
    \A raw \in Raws :
        /\ raw \in [total : Nat, num : Nat, body : Seq(Descriptor)]
        /\ \A p \in DOMAIN raw.body : raw.body[p].len # 1
        /\ raw.total <= 9 + Bytes(raw.body)
ASSUME LimitsAssumption ==
    /\ Calls \subseteq {"get", "max_packet_size"} /\ Endpoints \subseteq Nat \ {0}
    /\ MaxInterfaces \in Nat /\ MaxEndpoints \in Nat /\ MaxFailures \in Nat

VARIABLES
    raw, call, endpoint, \* the device and the call
    place, pos, size,    \* buffer and size
    extra,               \* bytes skipped since begin
    conf,                \* the configuration under construction
    blocks,              \* memory allocated and not freed
    result, failures

parser_vars == <<raw, call, endpoint, place, pos, size, extra, conf, blocks, result, failures>>
input == <<raw, call, endpoint>>
buffer == <<pos, size, extra>>

NoConf == [extra |-> 0, ifaces |-> <<>>]
Zeroed == [addr |-> 0, extra |-> 0]
One(b) == IF b THEN 1 ELSE 0

Header == raw.body[pos]
Readable == size >= 2          \* DESC_HEADER_LENGTH
Proper == Header.type # "other"

\* The altsetting and the endpoint being parsed.
Iface == Last(conf.ifaces)
Alt == Last(Iface)
SetIface(s) == [conf EXCEPT !.ifaces[Len(conf.ifaces)] = s]
SetAlt(a) == SetIface([Iface EXCEPT ![Len(Iface)] = a])
----------------------------------------------------------------------------
(* Memory *)

clear_endpoint(e) == One(e.extra > 0)
\* Mutant: what endpoints have allocated is forgotten.
clear_altsetting_Shallow(a) == One(a.extra > 0) + One(a.backed)
\* The blocks that clear_interface finds from the structure.
clear_altsetting(a) ==
    One(a.extra > 0)
      + (IF a.backed THEN 1 + Sum([j \in DOMAIN a.eps |-> clear_endpoint(a.eps[j])]) ELSE 0)
clear_interface(i) ==
    IF i = <<>> THEN 0 ELSE 1 + Sum([k \in DOMAIN i |-> clear_altsetting(i[k])])
clear_configuration ==
    1 + One(conf.extra > 0)
      + Sum([i \in DOMAIN conf.ifaces |-> clear_interface(conf.ifaces[i])])

malloc == UNCHANGED failures
Fails == failures < MaxFailures /\ failures' = failures + 1

Return(r) == result' = r /\ place' = "done"
\* The err labels of parse_interface and parse_configuration, then that of
\* the caller, which frees the descriptor and the buffer.
Err == /\ blocks' = blocks - clear_configuration - 2
       /\ Return("error") /\ UNCHANGED <<input, buffer, conf>>
----------------------------------------------------------------------------
(* libusb_get_active_config_descriptor *)

\* Two reads of the backend and two allocations; whichever fails, what was
\* allocated before is freed.
GetActiveConfig ==
    /\ place = "start"
    /\ \/ malloc /\ blocks' = 2 /\ place' = "configuration" /\ UNCHANGED result
       \/ Fails /\ Return("error") /\ UNCHANGED blocks
    /\ UNCHANGED <<input, buffer, conf>>

Configuration ==
    /\ place = "configuration"
    /\ \/ /\ malloc /\ raw.num <= MaxInterfaces
          /\ pos' = 1 /\ size' = raw.total - 9 /\ blocks' = blocks + 1
          /\ place' = IF raw.num = 0 THEN "left" ELSE "skip"
          /\ UNCHANGED <<extra, result>>
       \/ /\ (raw.num > MaxInterfaces /\ malloc) \/ Fails
          /\ blocks' = blocks - 2 /\ Return("error") /\ UNCHANGED buffer
    /\ UNCHANGED <<input, conf>>

\* Mutants: a descriptor without length is skipped; one that does not fit.
Bad_NoProgress == place = "skip" /\ Header.len > size
Bad_Unbounded == Header.len < 2
\* Only parse_configuration looks whether the descriptor fits.
Bad == Header.len < 2 \/ (place = "skip" /\ Header.len > size)
\* One turn of a loop over class and vendor descriptors.
Advance(d) == pos' = (IF d.len = 0 THEN pos ELSE pos + 1) /\ size' = size - d.len
Skip ==
    /\ place \in {"skip", "iskip", "eskip"} /\ Readable
    /\ \/ Bad /\ Err
       \/ /\ ~Bad /\ ~Proper
          /\ Advance(Header) /\ extra' = extra + Header.len
          /\ UNCHANGED <<input, place, conf, blocks, result>>
    /\ UNCHANGED failures
Skipped == IF Readable THEN ~Bad /\ Proper ELSE TRUE

\* Only the first run of unknown descriptors is kept.
SkippedConfig ==
    LET keep == extra > 0 /\ conf.extra = 0 IN
    /\ place = "skip" /\ Skipped
    /\ \/ /\ malloc /\ blocks' = blocks + One(keep)
          /\ conf' = [extra |-> IF keep THEN extra ELSE conf.extra,
                      ifaces |-> Append(conf.ifaces, <<>>)]
          /\ extra' = 0 /\ place' = "altsetting"
          /\ UNCHANGED <<input, pos, size, result>>
       \/ keep /\ Fails /\ Err
----------------------------------------------------------------------------
(* parse_interface *)

\* parse_interface returns.
InterfaceDone == place' = IF Len(conf.ifaces) = raw.num THEN "left" ELSE "skip"

\* Whatever is found where an interface should be is taken for one.
Altsetting ==
    /\ place = "altsetting"
    /\ \/ /\ size < 9 /\ InterfaceDone /\ malloc
          /\ UNCHANGED <<input, buffer, conf, blocks, result>>
       \/ /\ size >= 9 /\ malloc
          /\ conf' = SetIface(Append(Iface, [num |-> Header.num, eps |-> <<>>, extra |-> 0,
                                             backed |-> FALSE]))
          /\ blocks' = blocks + One(Iface = <<>>)
          /\ Advance(Header) /\ place' = "iskip" /\ UNCHANGED <<input, extra, result>>
       \/ size >= 9 /\ Fails /\ Err

\* The endpoints are allocated, unless the descriptors of this configuration
\* have come to an end: then there are none, whatever bNumEndpoints says.
SkippedInterface ==
    LET ended == Readable /\ Header.type \in {"config", "device"} IN
    /\ place = "iskip" /\ Skipped
    /\ \/ /\ malloc /\ (ended \/ Alt.num <= MaxEndpoints)
          /\ conf' = SetAlt([Alt EXCEPT !.extra = extra, !.backed = ~ended /\ Alt.num > 0])
          /\ blocks' = blocks + One(extra > 0) + One(~ended /\ Alt.num > 0)
          /\ extra' = 0
          /\ IF ended THEN InterfaceDone ELSE place' = "endpoint"
          /\ UNCHANGED <<input, pos, size, result>>
       \/ ~ended /\ Alt.num > MaxEndpoints /\ malloc /\ Err
       \/ (extra > 0 \/ (~ended /\ Alt.num > 0)) /\ Fails /\ Err

TooLong == Header.len > size

\* parse_endpoint.  Something else than an endpoint leaves one of zeros; a
\* header behind the end may have any length.
Endpoint ==
    LET Add(e) == conf' = SetAlt([Alt EXCEPT !.eps = Append(@, e)])
        Keep == UNCHANGED <<input, blocks, result>> IN
    /\ place = "endpoint" /\ Len(Alt.eps) < Alt.num /\ malloc
    /\ \/ Readable /\ TooLong /\ Err
       \/ /\ Readable /\ ~TooLong /\ Header.type = "endpoint"
          /\ Add([Zeroed EXCEPT !.addr = IF Header.len >= 7 THEN Header.addr ELSE 0])
          /\ Advance(Header) /\ place' = "eskip" /\ UNCHANGED extra /\ Keep
       \/ /\ \/ Readable /\ ~TooLong /\ Header.type # "endpoint"
             \/ size \in 0..1
          /\ Add(Zeroed) /\ UNCHANGED <<place, buffer>> /\ Keep
       \/ ~Readable /\ Err

SkippedEndpoint ==
    /\ place = "eskip" /\ Skipped
    /\ \/ /\ malloc
          /\ conf' = SetAlt([Alt EXCEPT !.eps[Len(Alt.eps)].extra = extra])
          /\ blocks' = blocks + One(extra > 0)
          /\ extra' = 0 /\ place' = "endpoint" /\ UNCHANGED <<input, pos, size, result>>
       \/ extra > 0 /\ Fails /\ Err

\* Mutant: an alternate setting begins an interface of its own.
Alternate_Never == FALSE
Alternate == size >= 9 /\ Header.type = "interface" /\ Header.alt # 0
NextAltsetting ==
    /\ place = "endpoint" /\ Len(Alt.eps) >= Alt.num
    /\ IF Alternate THEN place' = "altsetting" ELSE InterfaceDone
    /\ UNCHANGED <<input, buffer, conf, blocks, result, failures>>
----------------------------------------------------------------------------
(* The caller *)

\* parse_configuration returns size.  If more was skipped than there was, that
\* is taken for an error code, and nothing frees what was parsed.
Parsed ==
    /\ place = "left"
    /\ IF size < 0 THEN blocks' = blocks - 2 /\ Return("error")
       ELSE /\ blocks' = blocks - 1 /\ result' = "ok"
            /\ place' = IF call = "get" THEN "got" ELSE "find"
    /\ UNCHANGED <<input, buffer, conf, failures>>

libusb_free_config_descriptor ==
    /\ place = "got"
    /\ blocks' = blocks - clear_configuration - 1 /\ place' = "done"
    /\ UNCHANGED <<input, buffer, conf, result, failures>>

\* find_endpoint looks through all altsettings in order, at bNumEndpoints
\* endpoints of each: also where none were allocated.
AllAlts == FlattenSeq(conf.ifaces)
Has(a) == \E j \in DOMAIN a.eps : a.eps[j].addr = endpoint
Missing(a) == a.num > 0 /\ ~a.backed
find_endpoint ==
    LET hits == {k \in DOMAIN AllAlts : Has(AllAlts[k]) \/ Missing(AllAlts[k])}
    IN  IF hits = {} THEN "missing"
        ELSE IF Has(AllAlts[CHOOSE k \in hits : \A l \in hits : k <= l]) THEN "ok"
        ELSE "crashed"

\* libusb_get_max_packet_size and libusb_get_max_iso_packet_size: the
\* descriptor is not freed if it has no such endpoint.
GetMaxPacketSize ==
    /\ place = "find"
    /\ Return(find_endpoint)
    /\ blocks' = IF find_endpoint = "ok" THEN blocks - clear_configuration - 1 ELSE blocks
    /\ UNCHANGED <<input, buffer, conf, failures>>
----------------------------------------------------------------------------
ParserInit ==
    /\ raw \in Raws /\ call \in Calls
    /\ endpoint \in IF call = "get" THEN {0} ELSE Endpoints
    /\ place = "start" /\ pos = 0 /\ size = 0 /\ extra = 0 /\ conf = NoConf
    /\ blocks = 0 /\ result = "none" /\ failures = 0

ParserNext ==
    \/ GetActiveConfig \/ Configuration \/ Skip \/ SkippedConfig
    \/ Altsetting \/ SkippedInterface \/ Endpoint \/ SkippedEndpoint \/ NextAltsetting
    \/ Parsed \/ libusb_free_config_descriptor \/ GetMaxPacketSize

\* One thread runs the call to its end.
ParserSpec == ParserInit /\ [][ParserNext]_parser_vars /\ WF_parser_vars(ParserNext)
----------------------------------------------------------------------------
(* What the bytes mean *)

Positions(type) == {p \in DOMAIN raw.body : raw.body[p].type = type}
\* The first descriptor after p that is one of P, or the end.
After(p, P) == LET later == {q \in P : q > p}
               IN  IF later = {} THEN Len(raw.body) + 1
                   ELSE CHOOSE q \in later : \A r \in later : q <= r
\* The elements of P in ascending order.
Rank(p, P) == Cardinality({q \in P : q <= p})
Ordered(P) == [i \in 1..Cardinality(P) |-> CHOOSE p \in P : Rank(p, P) = i]
Run(p, q) == Bytes(SubSeq(raw.body, p + 1, q - 1))

InterfaceStarts == Positions("interface")
Heads == InterfaceStarts \cup Positions("endpoint")
\* The first setting of each interface, its settings, their endpoints.
Firsts == {p \in InterfaceStarts : raw.body[p].alt = 0}
SettingsOf(p) == {q \in InterfaceStarts : p <= q /\ q < After(p, Firsts)}
EndpointsOf(p) == {q \in Positions("endpoint") : p < q /\ q < After(p, InterfaceStarts)}

\* Every length and count is what it should be.
WellFormed ==
    /\ raw.total = 9 + Bytes(raw.body)
    /\ \A p \in DOMAIN raw.body :
         CASE raw.body[p].type = "interface" ->
                /\ raw.body[p].len = 9 /\ raw.body[p].num = Cardinality(EndpointsOf(p))
                /\ raw.body[p].num <= MaxEndpoints
           [] raw.body[p].type = "endpoint" -> raw.body[p].len \in {7, 9}
           [] raw.body[p].type = "other" -> raw.body[p].len >= 2
           [] OTHER -> FALSE
    /\ raw.num = Cardinality(Firsts)
    /\ raw.num <= MaxInterfaces
    /\ InterfaceStarts # {} => raw.body[After(0, InterfaceStarts)].alt = 0
    /\ Positions("endpoint") # {} => After(0, InterfaceStarts) < After(0, Positions("endpoint"))

EndpointAt(q) == [addr |-> raw.body[q].addr, extra |-> Run(q, After(q, Heads))]
SettingAt(p) == [num |-> raw.body[p].num, backed |-> raw.body[p].num > 0,
                 extra |-> Run(p, After(p, Heads)),
                 eps |-> [j \in 1..Cardinality(EndpointsOf(p)) |->
                            EndpointAt(Ordered(EndpointsOf(p))[j])]]
InterfaceAt(p) == [k \in 1..Cardinality(SettingsOf(p)) |-> SettingAt(Ordered(SettingsOf(p))[k])]
Meaning == [extra |-> IF raw.num = 0 THEN 0 ELSE Run(0, After(0, Heads)),
            ifaces |-> [i \in 1..Cardinality(Firsts) |-> InterfaceAt(Ordered(Firsts)[i])]]
----------------------------------------------------------------------------
(* Properties *)

\* Types of all variables.
ParserTypes ==
    /\ raw \in [total : Nat, num : Nat, body : Seq(Descriptor)]
    /\ call \in Calls /\ endpoint \in Endpoints \cup {0}
    /\ place \in {"start", "configuration", "skip", "altsetting", "iskip", "endpoint", "eskip",
                  "left", "find", "got", "done"}
    /\ pos \in 0..(Len(raw.body) + 1) /\ size \in Int /\ extra \in Nat /\ blocks \in Nat
    /\ conf.extra \in Nat /\ Len(conf.ifaces) <= raw.num
    /\ \A k \in DOMAIN AllAlts :
         /\ AllAlts[k].num \in Nat /\ AllAlts[k].extra \in Nat
         /\ Len(AllAlts[k].eps) <= IF AllAlts[k].backed THEN AllAlts[k].num ELSE 0
    /\ result \in {"none", "ok", "error", "missing", "crashed"}
    /\ failures \in 0..MaxFailures

\* What is returned for a well-formed configuration is what it means:
\* interfaces with their altsettings, endpoints in order, and the unknown
\* descriptors that belong to each.
ParsedRight ==
    (place \in {"got", "find"} /\ WellFormed) => conf = Meaning

\* A well-formed configuration is refused only if something failed.
Accepted == (place = "done" /\ result = "error" /\ WellFormed) => failures > 0

\* A well-formed configuration is understood, or something has failed.
ParseFaithful == ParsedRight /\ Accepted

\* When the call is over every block has been freed, whichever step failed:
\* except where the code loses them, a descriptor without the endpoint asked
\* for and one whose lengths run over its end.
Freed ==
    place = "done" => blocks = 0 \/ result \in {"missing", "crashed"}
                     \/ (result = "error" /\ size < 0)

\* The parser stays within the bytes it was given, unless an alternate setting,
\* or a class descriptor of an interface or an endpoint, claims to be longer
\* than what is left: those lengths are not compared.
Uncompared(d) == d.type = "other" \/ (d.type = "interface" /\ d.alt # 0)
Overlong == \E p \in DOMAIN raw.body :
              /\ Uncompared(raw.body[p])
              /\ \E q \in 1..(p - 1) : raw.body[q].type # "other"
              /\ 9 + Bytes(SubSeq(raw.body, 1, p)) > raw.total
InBounds == (place # "start" /\ raw.total >= 9 /\ ~Overlong) => size >= 0

\* Every endpoint that is reported is one the device has sent, before the end
\* of the buffer, or all zeros.
EndpointsSent ==
    \A k \in DOMAIN AllAlts : \A j \in DOMAIN AllAlts[k].eps :
        LET a == AllAlts[k].eps[j].addr IN
        a # 0 => \E q \in Positions("endpoint") :
                   /\ raw.body[q].addr = a
                   /\ 9 + Bytes(SubSeq(raw.body, 1, q)) <= raw.total

\* Whatever the device sends, the parser takes nothing from outside the bytes
\* it was given, but for the lengths it does not compare.
ParserOK == ParserTypes /\ InBounds /\ EndpointsSent

\* Every call ends, whatever lengths the device sends.
CallEnds == <>(place = "done")

\* A configuration in which an interface has endpoints without memory for
\* them is never looked through.
NeverCrashes == result # "crashed"
============================================================================
