-------------------------------- MODULE NetBlock --------------------------------
(***************************************************************************)
(* The netblock kernel module: a firewall in a virtue whose rules arrive   *)
(* as text written to a character device and are consulted by netfilter    *)
(* hooks.  A mutex is held from open to release of the device and guards   *)
(* the one buffer a command is copied to and parsed in; a spinlock guards  *)
(* each single operation on a rule map, but no sequence of them, so that   *)
(* packets are looked up while rules come and go.                          *)
(*                                                                         *)
(* A rule number is an unsigned char that tokens are or-ed into; it is     *)
(* modelled as the set of its one bits.                                    *)
(***************************************************************************)
EXTENDS Naturals, FiniteSets

CONSTANTS
    Writer,     \* processes that write to the device
    Address,    \* IP addresses, of either version
    Port,       \* port numbers
    Slot,       \* packets that can be in a hook at the same time
    None,
    MaxWrites   \* bound of the model: the commands written in a behaviour

ASSUME NetBlockAssumption ==
    /\ MaxWrites \in Nat
    /\ None \notin Writer \cup Address \cup Port

VARIABLES
    rules,    \* the keys in the sixteen maps of incomingRules and outgoingRules
    mutex,    \* the writer that has the device open, or None
    message,  \* the static buffer
    writer,   \* Writer -> the local variables of its system calls
    flight,   \* Slot -> the packet in the hook and how far it has got
    writes    \* only bounds the model

vars == <<rules, mutex, message, writer, flight, writes>>

Kind == {"ip", "tcp", "udp", "ip_port"}

\* A key, and the map it is in.
Rule == [incoming : BOOLEAN, dst : BOOLEAN, kind : Kind, key : Address \cup Port \cup (Address \X Port)]

(***************************************************************************)
(* Commands                                                                *)
(***************************************************************************)

Proto == {"ipv4", "ipv6", "tcp", "udp", "ipport"}

KeysOf(proto) ==
    CASE proto \in {"ipv4", "ipv6"} -> Address
      [] proto \in {"tcp", "udp"} -> Port
      [] proto = "ipport" -> Address \X Port

\* "block outgoing dst udp 53", and so on.
RuleCommand ==
    UNION {[block : BOOLEAN, incoming : BOOLEAN, dst : BOOLEAN, proto : {p}, key : KeysOf(p)] : p \in Proto}

\* The text "reset", and a text that is not five tokens.
Reset == [word |-> "reset"]
Malformed == [word |-> "malformed"]
Command == RuleCommand \cup {Reset, Malformed}

\* What the protocol's token sets of the rule number.
ProtoBits == [ipv4 |-> {}, ipv6 |-> {3}, tcp |-> {2, 3}, udp |-> {4}, ipport |-> {5}]

\* The rule number: block is 0x1, incoming 0x2, dst 0x4.
RuleNumber(c) ==
    {b \in {0} : c.block} \cup {b \in {1} : c.incoming} \cup {b \in {2} : c.dst} \cup ProtoBits[c.proto]

\* Mutant of KindOf: the cases of the address and port pairs are left out.
KindOfNoPairs(n) ==
    CASE n \cap {3, 4, 5} \in {{}, {3}} -> "ip"
      [] n \cap {3, 4, 5} = {4} -> "tcp"
      [] n \cap {3, 4, 5} = {3, 4} -> "udp"
      [] OTHER -> "udp"

\* The cases of the switch: 0-15 are the address maps, 16-23 TCP's, 24-31
\* UDP's and 32-39 those of address and port pairs.
KindOf(n) ==
    CASE n \cap {3, 4, 5} \in {{}, {3}} -> "ip"
      [] n \cap {3, 4, 5} = {4} -> "tcp"
      [] n \cap {3, 4, 5} = {3, 4} -> "udp"
      [] n \cap {3, 4, 5} = {5} -> "ip_port"

\* The key a rule number puts into, or takes from, a map.
Target(c) ==
    LET n == RuleNumber(c)
    IN  [incoming |-> 1 \in n, dst |-> 2 \in n, kind |-> KindOf(n), key |-> c.key]

(***************************************************************************)
(* Packets                                                                 *)
(***************************************************************************)

\* As the hooks parse them; a packet of another protocol has no ports, and what
\* stands for them is never read.
Packet ==
    {p \in [incoming : BOOLEAN, proto : {"tcp", "udp", "other"},
            src : Address, dst : Address, sport : Port, dport : Port] :
        p.proto = "other" => p.sport = p.dport}

\* Mutant of KeyAt: the destination port is looked up as the source port.
KeyAtSourcePort(p, stage) ==
    CASE stage = 1 -> [incoming |-> p.incoming, dst |-> FALSE, kind |-> "ip", key |-> p.src]
      [] stage = 2 -> [incoming |-> p.incoming, dst |-> TRUE, kind |-> "ip", key |-> p.dst]
      [] stage = 3 -> [incoming |-> p.incoming, dst |-> FALSE, kind |-> p.proto, key |-> p.sport]
      [] stage = 4 -> [incoming |-> p.incoming, dst |-> TRUE, kind |-> p.proto, key |-> p.sport]
      [] stage = 5 -> [incoming |-> p.incoming, dst |-> FALSE, kind |-> "ip_port",
                       key |-> <<IF p.incoming THEN p.src ELSE p.dst, p.sport>>]
      [] stage = 6 -> [incoming |-> p.incoming, dst |-> TRUE, kind |-> "ip_port",
                       key |-> <<p.src, p.dport>>]

\* The look-ups, in order: two of process_ip, four of process_transport.
KeyAt(p, stage) ==
    CASE stage = 1 -> [incoming |-> p.incoming, dst |-> FALSE, kind |-> "ip", key |-> p.src]
      [] stage = 2 -> [incoming |-> p.incoming, dst |-> TRUE, kind |-> "ip", key |-> p.dst]
      [] stage = 3 -> [incoming |-> p.incoming, dst |-> FALSE, kind |-> p.proto, key |-> p.sport]
      [] stage = 4 -> [incoming |-> p.incoming, dst |-> TRUE, kind |-> p.proto, key |-> p.dport]
      [] stage = 5 -> [incoming |-> p.incoming, dst |-> FALSE, kind |-> "ip_port",
                       key |-> <<IF p.incoming THEN p.src ELSE p.dst, p.sport>>]
      [] stage = 6 -> [incoming |-> p.incoming, dst |-> TRUE, kind |-> "ip_port",
                       key |-> <<p.src, p.dport>>]

\* Ports are looked up for TCP and UDP only.
NextStage(p, stage) == IF stage = 2 /\ p.proto = "other" THEN 5 ELSE stage + 1

\* A rule on an address or a port says what the packet's own fields tell.
OfAddressOrPort(r, p) ==
    \/ r.kind = "ip" /\ r.key = (IF r.dst THEN p.dst ELSE p.src)
    \/ r.kind = p.proto /\ r.key = (IF r.dst THEN p.dport ELSE p.sport)

\* A rule on an address and port, as the code pairs the two.
PairLookedUp(r, p) ==
    r.kind = "ip_port" /\ r.key =
        CASE p.incoming -> <<p.src, IF r.dst THEN p.dport ELSE p.sport>>
          [] ~ p.incoming /\ r.dst -> <<p.src, p.dport>>
          [] ~ p.incoming /\ ~ r.dst -> <<p.dst, p.sport>>

\* The same, as networkactuator/README.md 42 documents it: src and dst mean
\* nothing, an outgoing rule is on the address and port that a packet goes to,
\* an incoming one on those that it comes from.
PairDocumented(r, p) ==
    r.kind = "ip_port" /\ r.key = IF p.incoming THEN <<p.src, p.sport>> ELSE <<p.dst, p.dport>>

\* The rules that the look-ups ask for, whatever their order, and those that the
\* documentation says to block the packet.
Matches(r, p) == r.incoming = p.incoming /\ (OfAddressOrPort(r, p) \/ PairLookedUp(r, p))
Blocks(r, p) == r.incoming = p.incoming /\ (OfAddressOrPort(r, p) \/ PairDocumented(r, p))

\* The pair rules that the code reads as something else than it documents: all
\* but those on the source of an incoming packet.
ReadOtherwise(r) == r.kind = "ip_port" /\ (r.dst \/ ~ r.incoming)

\* History: of the rules that concern the packet in either sense, those that have
\* stood since it entered the hook, and those that have been there at some time
\* since.
Matching(p, rs) == {r \in rs : Matches(r, p) \/ Blocks(r, p)}
Flight == [packet : Packet, stage : 1 .. 6, standing : SUBSET Rule, seen : SUBSET Rule]
Verdict == [packet : Packet, verdict : {"accept", "drop"}, standing : SUBSET Rule, seen : SUBSET Rule]

ASSUME NoneAssumption == None \notin Flight \cup Verdict

InFlight(s) == flight[s] # None /\ "stage" \in DOMAIN flight[s]

\* A process that does not have the device open.
Closed == [pc |-> "closed", command |-> Malformed, map |-> 0, failed |-> FALSE]

Init ==
    /\ rules = {}
    /\ mutex = None
    /\ message = Malformed
    /\ writer = [w \in Writer |-> Closed]
    /\ flight = [s \in Slot |-> None]
    /\ writes = 0

\* One operation on one map, seen by the packets in the hooks.
ChangeRules(new) ==
    /\ rules' = new
    /\ flight' = [s \in Slot |-> IF InFlight(s)
                                 THEN [flight[s] EXCEPT !.standing = @ \cap new, !.seen = @ \cup Matching(flight[s].packet, new)]
                                 ELSE flight[s]]

At(w, pc) == writer[w].pc = pc
Goto(w, pc) == writer' = [writer EXCEPT ![w].pc = pc]

(***************************************************************************)
(* The device                                                              *)
(***************************************************************************)

\* Mutant of Open: the device is opened by whoever asks.
OpenAlways(w) ==
    /\ At(w, "closed")
    /\ mutex' = w
    /\ Goto(w, "open")
    /\ UNCHANGED <<rules, message, flight, writes>>

\* device_open waits for the mutex.
Open(w) ==
    /\ At(w, "closed")
    /\ mutex = None
    /\ mutex' = w
    /\ Goto(w, "open")
    /\ UNCHANGED <<rules, message, flight, writes>>

\* device_write copies the command, the first or a later one of an open file ...
Copy(w, c) ==
    /\ writer[w].pc \in {"open", "written"}
    /\ writes < MaxWrites
    /\ writes' = writes + 1
    /\ message' = c
    /\ writer' = [writer EXCEPT ![w].pc = "copied", ![w].command = c, ![w].failed = FALSE]
    /\ UNCHANGED <<rules, mutex, flight>>

\* ... and reads it back, which leaves the first token of it: a rule changes
\* one map.  A key that is not in its map needs memory, for its node and for the
\* buckets when they are full; map_set_ then fails with the map as it was, and
\* device_write reports success all the same.
ApplyRule(w) ==
    /\ At(w, "copied")
    /\ message \in RuleCommand
    /\ LET r == Target(message)
       IN  \/ /\ ChangeRules(IF 0 \in RuleNumber(message) THEN rules \cup {r} ELSE rules \ {r})
              /\ Goto(w, "written")
           \/ /\ 0 \in RuleNumber(message) /\ r \notin rules
              /\ writer' = [writer EXCEPT ![w].pc = "written", ![w].failed = TRUE]
              /\ UNCHANGED <<rules, flight>>
    /\ message' = Malformed
    /\ UNCHANGED <<mutex, writes>>

\* a text that is not a rule changes nothing,
Refuse(w) ==
    /\ At(w, "copied")
    /\ message = Malformed
    /\ Goto(w, "written")
    /\ UNCHANGED <<rules, mutex, message, flight, writes>>

\* and a reset clears the maps one after the other.
BeginReset(w) ==
    /\ At(w, "copied")
    /\ message = Reset
    /\ writer' = [writer EXCEPT ![w].pc = "clearing", ![w].map = 1]
    /\ UNCHANGED <<rules, mutex, message, flight, writes>>

\* resetRules clears the outgoing maps, then the incoming ones.
MapOrder(i) ==
    LET j == (i - 1) % 8
    IN  [incoming |-> i > 8,
         dst |-> j \in {1, 3, 5, 7},
         kind |-> IF j < 2 THEN "ip" ELSE IF j < 4 THEN "ip_port" ELSE IF j < 6 THEN "tcp" ELSE "udp"]

InMap(i) ==
    {r \in rules : [incoming |-> r.incoming, dst |-> r.dst, kind |-> r.kind] = MapOrder(i)}

\* Clear the next map that is not empty.  safe_map_clear frees the node its
\* iterator is at and then reads the node's link: the keys that follow it in a
\* bucket are found only if the freed memory is still what it was.
ClearMap(w) ==
    /\ At(w, "clearing")
    /\ \E i \in writer[w].map .. 16 :
          /\ InMap(i) # {} /\ \A j \in writer[w].map .. i - 1 : InMap(j) = {}
          /\ \E left \in (SUBSET InMap(i)) \ {InMap(i)} : ChangeRules((rules \ InMap(i)) \cup left)
          /\ writer' = [writer EXCEPT ![w].map = i + 1]
    /\ UNCHANGED <<mutex, message, writes>>

EndReset(w) ==
    /\ At(w, "clearing")
    /\ \A i \in writer[w].map .. 16 : InMap(i) = {}
    /\ Goto(w, "written")
    /\ UNCHANGED <<rules, mutex, message, flight, writes>>

\* device_release; a process may also close the device without writing.
Release(w) ==
    /\ At(w, "written") \/ At(w, "open")
    /\ mutex' = None
    /\ writer' = [writer EXCEPT ![w] = Closed]
    /\ UNCHANGED <<rules, message, flight, writes>>

(***************************************************************************)
(* The hooks                                                               *)
(***************************************************************************)

Arrive(s, p) ==
    /\ flight[s] = None
    /\ flight' = [flight EXCEPT ![s] = [packet |-> p, stage |-> 1, standing |-> Matching(p, rules),
                                            seen |-> Matching(p, rules)]]
    /\ UNCHANGED <<rules, mutex, message, writer, writes>>

Decide(s, v) ==
    flight' = [flight EXCEPT ![s] = [packet |-> @.packet, verdict |-> v,
                                     standing |-> @.standing, seen |-> @.seen]]

\* A packet of another protocol reaches the last two look-ups with ports that
\* were never written: any port.
LookedUp(p, stage) ==
    IF p.proto = "other" THEN {KeyAt([p EXCEPT !.sport = x, !.dport = x], stage) : x \in Port}
    ELSE {KeyAt(p, stage)}

\* Mutant of Check: a packet that passes both address maps is accepted.
CheckAddresses(s) ==
    /\ InFlight(s)
    /\ \E r \in LookedUp(flight[s].packet, flight[s].stage) :
          \/ r \in rules /\ Decide(s, "drop")
          \/ r \notin rules /\ flight[s].stage \in {2, 6} /\ Decide(s, "accept")
          \/ /\ r \notin rules /\ flight[s].stage \notin {2, 6}
             /\ flight' = [flight EXCEPT ![s].stage = NextStage(flight[s].packet, @)]
    /\ UNCHANGED <<rules, mutex, message, writer, writes>>

\* One safe_map_check.
Check(s) ==
    /\ InFlight(s)
    /\ \E r \in LookedUp(flight[s].packet, flight[s].stage) :
          \/ r \in rules /\ Decide(s, "drop")
          \/ r \notin rules /\ flight[s].stage = 6 /\ Decide(s, "accept")
          \/ /\ r \notin rules /\ flight[s].stage < 6
             /\ flight' = [flight EXCEPT ![s].stage = NextStage(flight[s].packet, @)]
    /\ UNCHANGED <<rules, mutex, message, writer, writes>>

\* The packet leaves the hook with its verdict.
Leave(s) ==
    /\ flight[s] # None /\ ~ InFlight(s)
    /\ flight' = [flight EXCEPT ![s] = None]
    /\ UNCHANGED <<rules, mutex, message, writer, writes>>

Write(w) == ApplyRule(w) \/ Refuse(w) \/ BeginReset(w) \/ ClearMap(w) \/ EndReset(w)

Next ==
    \/ \E w \in Writer :
          \/ Open(w) \/ Write(w) \/ Release(w)
          \/ \E c \in Command : Copy(w, c)
    \/ \E s \in Slot :
          \/ \E p \in Packet : Arrive(s, p)
          \/ Check(s) \/ Leave(s)

Spec == Init /\ [][Next]_vars

(***************************************************************************)
(* Properties                                                              *)
(***************************************************************************)

\* Type invariant.
TypeOK ==
    /\ rules \subseteq Rule
    /\ mutex \in Writer \cup {None}
    /\ message \in Command
    /\ writer \in [Writer -> [pc : {"closed", "open", "copied", "clearing", "written"},
                              command : Command, map : 0 .. 17, failed : BOOLEAN]]
    /\ flight \in [Slot -> Flight \cup Verdict \cup {None}]
    /\ writes \in 0 .. MaxWrites

\* A writer parses the command it wrote: the device's mutex keeps every other
\* one out of the shared buffer from open to release (netblock_module.c 99,
\* 567-579, 809-812).
OwnMessage ==
    \A w \in Writer : writer[w].pc \in {"copied", "clearing"} => message = writer[w].command

Accepted(s) ==
    /\ flight[s] # None /\ ~ InFlight(s) /\ flight[s].verdict = "accept"
    /\ flight[s].packet.proto # "other"

\* A TCP or UDP packet is accepted only if no rule that stood all the while it
\* was in the hook blocks it as documented, however the maps change between its
\* look-ups; the pair rules that the code reads otherwise are left to
\* PairRulesBlock (netblock_module.c 217-438).
AcceptedWasAllowed ==
    \A s \in Slot : Accepted(s) =>
        \A r \in flight[s].standing : ~ ReadOtherwise(r) => ~ Blocks(r, flight[s].packet)

\* networkactuator/README.md 42: to block all outgoing traffic to an address and
\* port one uses "block outgoing [src/dst] ipport" with them, and "block
\* incoming [src/dst] ipport" for the reverse traffic.
PairRulesBlock ==
    \A s \in Slot : Accepted(s) =>
        \A r \in flight[s].standing : ~ PairDocumented(r, flight[s].packet)

\* A TCP or UDP packet is dropped only for a rule that was there while it was
\* in the hook and that is on an address, a port or a pair of its own
\* (netblock_module.c 217-438).
DroppedWasBlocked ==
    \A s \in Slot :
        flight[s] # None /\ ~ InFlight(s) /\ flight[s].verdict = "drop"
            /\ flight[s].packet.proto # "other"
        => \E r \in flight[s].seen : Matches(r, flight[s].packet)

\* The rule a command names.
Named(c) ==
    [incoming |-> c.incoming, dst |-> c.dst, key |-> c.key,
     kind |-> CASE c.proto \in {"ipv4", "ipv6"} -> "ip"
                [] c.proto = "ipport" -> "ip_port"
                [] OTHER -> c.proto]

\* The last command written decides, whatever other writers and resets did
\* before: an unblocked address, or address and port, is not in the map it
\* names, and a blocked one is unless that map could not grow
\* (netblock_module.c 579-759, kmap.c 140-163).
AddressRulesHold ==
    \A w \in Writer :
        At(w, "written") /\ writer[w].command \in RuleCommand
            /\ writer[w].command.proto \in {"ipv4", "ipv6", "ipport"}
        => IF writer[w].command.block
           THEN Named(writer[w].command) \in rules \/ writer[w].failed
           ELSE Named(writer[w].command) \notin rules

\* The comment on the rule numbers (netblock_module.c 590-602: "010=tcp,
\* 011=udp"): a blocking command puts its key in the map of its direction, its
\* end and its protocol.
CommandReachesItsMap ==
    \A w \in Writer :
        At(w, "written") /\ writer[w].command \in RuleCommand /\ writer[w].command.block
        => Named(writer[w].command) \in rules \/ writer[w].failed

\* "the existing ruleset is wiped" (networkactuator/README.md 11): a reset
\* leaves no rule behind.
ResetEmpties ==
    \A w \in Writer : At(w, "written") /\ writer[w].command = Reset => rules = {}
=============================================================================
