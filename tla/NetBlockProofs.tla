----------------------------- MODULE NetBlockProofs -----------------------------
(***************************************************************************)
(* Proofs about the netblock module: what the device's mutex protects, and *)
(* that the look-ups of a packet, taken one by one while rules come and    *)
(* go, decide as the rules do.                                             *)
(***************************************************************************)
EXTENDS NetBlock, TLAPS

\* What is in a slot of the hooks tells whether it has its verdict.
LEMMA SlotKinds ==
    /\ \A v \in Verdict : "stage" \notin DOMAIN v
    /\ \A f \in Flight : "stage" \in DOMAIN f
  BY DEF Verdict, Flight

\* The texts that are not rules differ from every rule and from each other.
LEMMA OtherTexts == Malformed \notin RuleCommand /\ Reset \notin RuleCommand /\ Malformed # Reset
<1>1. \A c \in RuleCommand : "block" \in DOMAIN c
  BY DEF RuleCommand
<1>2. "block" \notin DOMAIN Malformed /\ "block" \notin DOMAIN Reset
  BY DEF Malformed, Reset
<1>3. Malformed.word # Reset.word
  BY DEF Malformed, Reset
<1> QED
  BY <1>1, <1>2, <1>3

\* The look-ups of a TCP or UDP packet find exactly the rules that match it.
LEMMA LookUpsMatch ==
    ASSUME NEW p \in Packet, p.proto # "other"
    PROVE  /\ \A k \in 1 .. 6 : KeyAt(p, k) \in Rule /\ Matches(KeyAt(p, k), p)
           /\ \A r \in Rule : Matches(r, p) => \E k \in 1 .. 6 : r = KeyAt(p, k)
<1>1. ASSUME NEW k \in 1 .. 6
      PROVE  KeyAt(p, k) \in Rule /\ Matches(KeyAt(p, k), p)
  BY <1>1 DEF KeyAt, Rule, Matches, OfAddressOrPort, PairLookedUp, Packet, Kind
<1>2. ASSUME NEW r \in Rule, Matches(r, p)
      PROVE  \E k \in 1 .. 6 : r = KeyAt(p, k)
  BY <1>2 DEF KeyAt, Rule, Matches, OfAddressOrPort, PairLookedUp, Packet, Kind
<1> QED
  BY <1>1, <1>2

\* What blocks a packet as documented is looked up, but for the pair rules that
\* the code reads otherwise.
LEMMA DocumentedIsLookedUp ==
    ASSUME NEW p \in Packet, NEW r \in Rule, Blocks(r, p), ~ ReadOtherwise(r)
    PROVE  Matches(r, p)
  BY DEF Blocks, Matches, PairDocumented, PairLookedUp, ReadOtherwise, Rule, Packet

\* The key a rule's command changes is a key of some map.
LEMMA TargetType == \A c \in RuleCommand : Target(c) \in Rule
<1> SUFFICES ASSUME NEW c \in RuleCommand PROVE Target(c) \in Rule
  OBVIOUS
<1>1. c.proto \in Proto /\ c.key \in Address \cup Port \cup (Address \X Port)
  BY DEF RuleCommand, Proto, KeysOf
<1>2. RuleNumber(c) \cap {3, 4, 5} \in {{}, {3}, {4}, {5}}
  BY <1>1 DEF RuleNumber, Proto, ProtoBits
<1>3. KindOf(RuleNumber(c)) \in Kind
  BY <1>2 DEF KindOf, Kind
<1> QED
  BY <1>1, <1>3 DEF Target, Rule

\* Commands about addresses reach the map they name.
LEMMA AddressTarget ==
    ASSUME NEW c \in RuleCommand, c.proto \in {"ipv4", "ipv6", "ipport"}
    PROVE  Target(c) = Named(c)
<1>1. RuleNumber(c) \cap {3, 4, 5} = ProtoBits[c.proto]
  BY DEF RuleNumber, ProtoBits, Proto
<1>2. KindOf(RuleNumber(c)) = Named(c).kind
  BY <1>1 DEF KindOf, ProtoBits, Proto, Named
<1>3. (1 \in RuleNumber(c) <=> c.incoming) /\ (2 \in RuleNumber(c) <=> c.dst)
  BY DEF RuleNumber, ProtoBits, Proto
<1>4. c.incoming \in BOOLEAN /\ c.dst \in BOOLEAN
  BY DEF RuleCommand
<1>5. (1 \in RuleNumber(c)) = c.incoming /\ (2 \in RuleNumber(c)) = c.dst
  BY <1>3, <1>4
<1> QED
  BY <1>2, <1>5 DEF Target, Named

\* The first bit of the rule number tells a blocking command.
LEMMA BlockBit == \A c \in RuleCommand : 0 \in RuleNumber(c) <=> c.block
  BY DEF RuleNumber, ProtoBits, Proto, RuleCommand

(***************************************************************************)
(* The inductive invariant                                                 *)
(***************************************************************************)

\* The mutex is held by the process that has the device open, and the maps are
\* cleared for a reset.
DeviceInv ==
    \A w \in Writer :
        /\ writer[w].pc # "closed" <=> mutex = w
        /\ writer[w].pc = "clearing" => writer[w].command = Reset

\* The rules that a packet has been looked up against have not stood since it
\* arrived; those that match it now have been seen.
HookInv ==
    \A s \in Slot : InFlight(s) =>
        /\ flight[s].standing \subseteq rules
        /\ Matching(flight[s].packet, rules) \subseteq flight[s].seen
        /\ flight[s].packet.proto # "other"
           => \A k \in 1 .. 6 : k < flight[s].stage => KeyAt(flight[s].packet, k) \notin flight[s].standing

Hooks == HookInv /\ AcceptedWasAllowed /\ DroppedWasBlocked
Device == DeviceInv /\ OwnMessage /\ AddressRulesHold

IInv == TypeOK /\ Device /\ Hooks

\* A slot holds a packet on its way, a verdict or nothing.
LEMMA Slots ==
    ASSUME TypeOK, NEW s \in Slot
    PROVE  /\ InFlight(s) => flight[s] \in Flight
           /\ flight[s] # None /\ ~ InFlight(s) => flight[s] \in Verdict
  BY SlotKinds DEF TypeOK, InFlight

\* One operation on a map, whatever it does to it, keeps what the hooks rely on.
LEMMA RulesChange ==
    ASSUME TypeOK, Hooks, NEW new \in SUBSET Rule, ChangeRules(new)
    PROVE  /\ rules' \in SUBSET Rule
           /\ flight' \in [Slot -> Flight \cup Verdict \cup {None}]
           /\ Hooks'
<1>1. rules' = new
  BY DEF ChangeRules
<1>2. ASSUME NEW s \in Slot, ~ InFlight(s)
      PROVE  flight'[s] = flight[s] /\ (InFlight(s)' <=> InFlight(s))
  BY <1>2 DEF ChangeRules, InFlight
<1>3. ASSUME NEW s \in Slot, InFlight(s)
      PROVE  /\ flight'[s] \in Flight /\ InFlight(s)'
             /\ flight'[s].packet = flight[s].packet /\ flight'[s].stage = flight[s].stage
             /\ flight'[s].standing = flight[s].standing \cap new
             /\ flight'[s].seen = flight[s].seen \cup Matching(flight[s].packet, new)
  <2>1. flight[s] \in Flight
    BY <1>3, Slots
  <2>2. flight'[s] = [flight[s] EXCEPT !.standing = flight[s].standing \cap new,
                                       !.seen = flight[s].seen \cup Matching(flight[s].packet, new)]
    BY <1>3 DEF ChangeRules
  <2>3. Matching(flight[s].packet, new) \subseteq Rule
    BY DEF Matching
  <2>4. /\ flight'[s] \in Flight
        /\ flight'[s].packet = flight[s].packet /\ flight'[s].stage = flight[s].stage
        /\ flight'[s].standing = flight[s].standing \cap new
        /\ flight'[s].seen = flight[s].seen \cup Matching(flight[s].packet, new)
    BY <2>1, <2>2, <2>3 DEF Flight
  <2>5. flight'[s] # None
    BY <2>4, NoneAssumption
  <2> QED
    BY <2>4, <2>5, SlotKinds DEF InFlight
<1>4. flight' \in [Slot -> Flight \cup Verdict \cup {None}]
  <2>1. \A s \in Slot : flight'[s] \in Flight \cup Verdict \cup {None}
    BY <1>2, <1>3 DEF TypeOK
  <2> QED
    BY <2>1 DEF ChangeRules
<1>5. HookInv'
  BY <1>1, <1>2, <1>3 DEF Hooks, HookInv
<1>6. AcceptedWasAllowed'
  BY <1>2, <1>3 DEF Hooks, AcceptedWasAllowed, Accepted
<1>7. DroppedWasBlocked'
  BY <1>2, <1>3 DEF Hooks, DroppedWasBlocked
<1> QED
  BY <1>1, <1>4, <1>5, <1>6, <1>7 DEF Hooks

LEMMA IInit == Init => IInv
<1> SUFFICES ASSUME Init PROVE IInv
  OBVIOUS
<1>1. TypeOK
  BY NetBlockAssumption DEF Init, TypeOK, Closed, Command, NetBlockAssumption
<1>2. Device
  BY NetBlockAssumption DEF Init, Device, DeviceInv, OwnMessage, AddressRulesHold, Closed, At, NetBlockAssumption
<1>3. Hooks
  BY DEF Init, Hooks, HookInv, AcceptedWasAllowed, Accepted, DroppedWasBlocked, InFlight
<1> QED
  BY <1>1, <1>2, <1>3 DEF IInv

(***************************************************************************)
(* The hooks' steps                                                        *)
(***************************************************************************)

\* A step that changes one slot only.
LEMMA OneSlot ==
    ASSUME IInv, NEW s \in Slot, NEW v \in Flight \cup Verdict \cup {None},
           flight' = [flight EXCEPT ![s] = v],
           UNCHANGED <<rules, mutex, message, writer, writes>>,
           v \in Flight =>
               /\ v.standing \subseteq rules
               /\ Matching(v.packet, rules) \subseteq v.seen
               /\ v.packet.proto # "other"
                  => \A k \in 1 .. 6 : k < v.stage => KeyAt(v.packet, k) \notin v.standing,
           v \in Verdict /\ v.packet.proto # "other" =>
               /\ v.verdict = "accept" => \A r \in v.standing : ~ ReadOtherwise(r) => ~ Blocks(r, v.packet)
               /\ v.verdict = "drop" => \E r \in v.seen : Matches(r, v.packet)
    PROVE  IInv'
<1>1. \A x \in Slot : flight'[x] = IF x = s THEN v ELSE flight[x]
  BY DEF IInv, TypeOK
<1>2. TypeOK'
  BY DEF IInv, TypeOK
<1>3. Device'
  BY DEF IInv, Device, DeviceInv, OwnMessage, AddressRulesHold, At
<1>4. \A x \in Slot \ {s} : flight'[x] = flight[x] /\ (InFlight(x)' <=> InFlight(x))
  BY <1>1 DEF InFlight
<1>5. flight'[s] = v /\ (InFlight(s)' => v \in Flight) /\ (v # None /\ ~ InFlight(s)' => v \in Verdict)
  BY <1>1, SlotKinds DEF InFlight
<1>6. HookInv'
  <2> SUFFICES ASSUME NEW x \in Slot, InFlight(x)'
               PROVE  /\ flight'[x].standing \subseteq rules
                      /\ Matching(flight'[x].packet, rules) \subseteq flight'[x].seen
                      /\ flight'[x].packet.proto # "other"
                         => \A k \in 1 .. 6 : k < flight'[x].stage
                                => KeyAt(flight'[x].packet, k) \notin flight'[x].standing
    BY DEF HookInv
  <2>1. CASE x = s
    BY <1>5, <2>1
  <2>2. CASE x # s
    BY <1>4, <2>2 DEF IInv, Hooks, HookInv
  <2> QED
    BY <2>1, <2>2
<1>7. AcceptedWasAllowed' /\ DroppedWasBlocked'
  BY <1>4, <1>5 DEF IInv, Hooks, AcceptedWasAllowed, Accepted, DroppedWasBlocked
<1> QED
  BY <1>2, <1>3, <1>6, <1>7 DEF IInv, Hooks

LEMMA ArriveStep == ASSUME IInv, NEW s \in Slot, NEW p \in Packet, Arrive(s, p) PROVE IInv'
<1> DEFINE v == [packet |-> p, stage |-> 1, standing |-> Matching(p, rules), seen |-> Matching(p, rules)]
<1>1. Matching(p, rules) \subseteq rules /\ rules \subseteq Rule
  BY DEF Matching, IInv, TypeOK
<1>2. v \in Flight
  BY <1>1 DEF Flight
<1>3. v \notin Verdict
  BY <1>2, SlotKinds
<1>4. flight' = [flight EXCEPT ![s] = v] /\ UNCHANGED <<rules, mutex, message, writer, writes>>
  BY DEF Arrive
<1>5. /\ v.standing \subseteq rules
      /\ Matching(v.packet, rules) \subseteq v.seen
      /\ \A k \in 1 .. 6 : ~ k < v.stage
  BY <1>1
<1> HIDE DEF v
<1> QED
  BY <1>2, <1>3, <1>4, <1>5, OneSlot

LEMMA LeaveStep == ASSUME IInv, NEW s \in Slot, Leave(s) PROVE IInv'
<1>1. None \notin Flight /\ None \notin Verdict
  BY NoneAssumption
<1> QED
  BY <1>1, OneSlot DEF Leave

LEMMA CheckStep == ASSUME IInv, NEW s \in Slot, Check(s) PROVE IInv'
<1> DEFINE f == flight[s]
           p == f.packet
<1>1. /\ f \in Flight /\ InFlight(s)
      /\ f.standing \subseteq rules /\ Matching(p, rules) \subseteq f.seen
      /\ p.proto # "other" => \A k \in 1 .. 6 : k < f.stage => KeyAt(p, k) \notin f.standing
  BY Slots DEF Check, IInv, Hooks, HookInv
<1>2. p \in Packet /\ f.stage \in 1 .. 6 /\ f.standing \subseteq Rule /\ f.seen \subseteq Rule
  BY <1>1 DEF Flight
<1>3. PICK r \in LookedUp(p, f.stage) :
          \/ r \in rules /\ Decide(s, "drop")
          \/ r \notin rules /\ f.stage = 6 /\ Decide(s, "accept")
          \/ /\ r \notin rules /\ f.stage < 6
             /\ flight' = [flight EXCEPT ![s].stage = NextStage(p, @)]
  BY DEF Check
<1>4. UNCHANGED <<rules, mutex, message, writer, writes>>
  BY DEF Check
<1>5. p.proto # "other" => r = KeyAt(p, f.stage)
  BY <1>3 DEF LookedUp
<1>6. CASE r \in rules /\ Decide(s, "drop")
  <2> DEFINE v == [packet |-> p, verdict |-> "drop", standing |-> f.standing, seen |-> f.seen]
  <2>1. v \in Verdict
    BY <1>2 DEF Verdict
  <2>2. v \notin Flight
    BY <2>1, SlotKinds
  <2>3. flight' = [flight EXCEPT ![s] = v]
    BY <1>6 DEF Decide
  <2>4. p.proto # "other" => \E x \in f.seen : Matches(x, p)
    BY <1>1, <1>2, <1>5, <1>6, LookUpsMatch DEF Matching
  <2>5. v.packet = p /\ v.verdict = "drop" /\ v.seen = f.seen
    OBVIOUS
  <2> HIDE DEF v, p, f
  <2> QED
    BY <1>4, <2>1, <2>2, <2>3, <2>4, <2>5, OneSlot
<1>7. CASE r \notin rules /\ f.stage = 6 /\ Decide(s, "accept")
  <2> DEFINE v == [packet |-> p, verdict |-> "accept", standing |-> f.standing, seen |-> f.seen]
  <2>1. v \in Verdict
    BY <1>2 DEF Verdict
  <2>2. v \notin Flight
    BY <2>1, SlotKinds
  <2>3. flight' = [flight EXCEPT ![s] = v]
    BY <1>7 DEF Decide
  <2>4. ASSUME p.proto # "other", NEW x \in f.standing, ~ ReadOtherwise(x) PROVE ~ Blocks(x, p)
    <3>1. \A k \in 1 .. 6 : x # KeyAt(p, k)
      BY <1>1, <1>5, <1>7, <2>4
    <3>2. ~ Matches(x, p)
      BY <1>2, <2>4, <3>1, LookUpsMatch
    <3> QED
      BY <1>2, <2>4, <3>2, DocumentedIsLookedUp
  <2>5. v.packet = p /\ v.verdict = "accept" /\ v.standing = f.standing
    OBVIOUS
  <2> HIDE DEF v, p, f
  <2> QED
    BY <1>4, <2>1, <2>2, <2>3, <2>4, <2>5, OneSlot
<1>8. CASE r \notin rules /\ f.stage < 6 /\ flight' = [flight EXCEPT ![s].stage = NextStage(p, @)]
  <2> DEFINE v == [f EXCEPT !.stage = NextStage(p, f.stage)]
  <2>1. NextStage(p, f.stage) \in 1 .. 6
    BY <1>2, <1>8 DEF NextStage
  <2>2. /\ v \in Flight /\ v.packet = p /\ v.standing = f.standing /\ v.seen = f.seen
        /\ v.stage = NextStage(p, f.stage)
    BY <1>1, <2>1 DEF Flight
  <2>3. v \notin Verdict
    BY <2>2, SlotKinds
  <2>4. flight' = [flight EXCEPT ![s] = v]
    BY <1>8 DEF IInv, TypeOK
  <2>5. p.proto # "other" => \A k \in 1 .. 6 : k < NextStage(p, f.stage) => KeyAt(p, k) \notin f.standing
    <3> SUFFICES ASSUME p.proto # "other", NEW k \in 1 .. 6, k < NextStage(p, f.stage)
                 PROVE  KeyAt(p, k) \notin f.standing
      OBVIOUS
    <3>1. k < f.stage \/ k = f.stage
      BY <1>2 DEF NextStage
    <3> QED
      BY <1>1, <1>5, <1>8, <3>1
  <2> HIDE DEF v, p, f
  <2> QED
    BY <1>1, <1>4, <2>2, <2>3, <2>4, <2>5, OneSlot
<1> QED
  BY <1>3, <1>6, <1>7, <1>8

(***************************************************************************)
(* The device's steps                                                      *)
(***************************************************************************)

Call == [pc : {"closed", "open", "copied", "clearing", "written"}, command : Command, map : 0 .. 17,
         failed : BOOLEAN]

\* The packets do not see a step that changes no map.
LEMMA HooksKept == ASSUME Hooks, UNCHANGED <<rules, flight>> PROVE Hooks'
  BY DEF Hooks, HookInv, InFlight, AcceptedWasAllowed, Accepted, DroppedWasBlocked

\* A step of the process that has the device open, or that opens it, keeps what
\* is said of every other process.
LEMMA OneWriter ==
    ASSUME IInv, NEW w \in Writer, NEW c \in Call, writer' = [writer EXCEPT ![w] = c],
           mutex \in {w, None},
           mutex' = IF c.pc = "closed" THEN None ELSE w,
           c.pc \in {"copied", "clearing"} => message' = c.command,
           c.pc = "clearing" => c.command = Reset,
           c.pc = "written" /\ c.command \in RuleCommand /\ c.command.proto \in {"ipv4", "ipv6", "ipport"}
           => IF c.command.block THEN Named(c.command) \in rules' \/ c.failed
              ELSE Named(c.command) \notin rules'
    PROVE  writer' \in [Writer -> Call] /\ Device'
<1>1. /\ writer' \in [Writer -> Call] /\ writer'[w] = c
      /\ \A x \in Writer \ {w} : writer'[x] = writer[x] /\ writer[x].pc = "closed"
  BY NetBlockAssumption DEF IInv, TypeOK, Call, Device, DeviceInv, NetBlockAssumption
<1>2. DeviceInv'
  BY <1>1, NetBlockAssumption DEF DeviceInv, NetBlockAssumption
<1>3. OwnMessage'
  BY <1>1 DEF OwnMessage
<1>4. AddressRulesHold'
  BY <1>1 DEF AddressRulesHold, At
<1> QED
  BY <1>1, <1>2, <1>3, <1>4 DEF Device

LEMMA OpenStep == ASSUME IInv, NEW w \in Writer, Open(w) PROVE IInv'
<1> DEFINE c == [writer[w] EXCEPT !.pc = "open"]
<1>1. c \in Call /\ c.pc = "open"
  BY DEF IInv, TypeOK, Call
<1>2. /\ writer' = [writer EXCEPT ![w] = c] /\ mutex = None /\ mutex' = w
      /\ UNCHANGED <<rules, message, flight, writes>>
  BY DEF Open, Goto
<1> HIDE DEF c
<1>3. writer' \in [Writer -> Call] /\ Device'
  BY <1>1, <1>2, OneWriter
<1> QED
  BY <1>2, <1>3, HooksKept DEF IInv, TypeOK, Call

LEMMA ReleaseStep == ASSUME IInv, NEW w \in Writer, Release(w) PROVE IInv'
<1>1. Closed \in Call /\ Closed.pc = "closed"
  BY DEF Closed, Call, Command
<1>2. /\ writer' = [writer EXCEPT ![w] = Closed] /\ mutex = w /\ mutex' = None
      /\ UNCHANGED <<rules, message, flight, writes>>
  BY DEF Release, At, IInv, Device, DeviceInv
<1>3. writer' \in [Writer -> Call] /\ Device'
  BY <1>1, <1>2, OneWriter
<1> QED
  BY <1>2, <1>3, HooksKept DEF IInv, TypeOK, Call

LEMMA CopyStep == ASSUME IInv, NEW w \in Writer, NEW text \in Command, Copy(w, text) PROVE IInv'
<1> DEFINE b == [writer[w] EXCEPT !.pc = "copied", !.command = text]
           c == [b EXCEPT !.failed = FALSE]
<1>0. b \in Call /\ b.pc = "copied" /\ b.command = text
  BY DEF IInv, TypeOK, Call
<1>a. writer' = [writer EXCEPT ![w] = c]
  BY DEF Copy
<1> HIDE DEF b
<1>1. c \in Call /\ c.pc = "copied" /\ c.command = text
  BY <1>0 DEF Call
<1>2. /\ mutex = w /\ mutex' = w /\ message' = text
      /\ writes < MaxWrites /\ writes' = writes + 1
      /\ UNCHANGED <<rules, flight>>
  BY DEF Copy, IInv, TypeOK, Device, DeviceInv
<1> HIDE DEF c
<1>3. writer' \in [Writer -> Call] /\ Device'
  BY <1>a, <1>1, <1>2, OneWriter
<1>4. writes' \in 0 .. MaxWrites
  BY <1>2, NetBlockAssumption DEF IInv, TypeOK, NetBlockAssumption
<1> QED
  BY <1>2, <1>3, <1>4, HooksKept DEF IInv, TypeOK, Call

\* A rule, for which the buffer's text is the writer's own: its map takes it, or
\* cannot grow and stays as it was.
LEMMA ApplyStep == ASSUME IInv, NEW w \in Writer, ApplyRule(w) PROVE IInv'
<1> DEFINE new == IF 0 \in RuleNumber(message)
                  THEN rules \cup {Target(message)} ELSE rules \ {Target(message)}
           pairs == {"ipv4", "ipv6", "ipport"}
<1>1. /\ mutex = w /\ mutex' = w /\ message' = Malformed /\ writes' = writes
      /\ message \in RuleCommand /\ message = writer[w].command
  BY DEF ApplyRule, At, IInv, Device, DeviceInv, OwnMessage
<1>2. writer[w] \in Call
  BY DEF IInv, TypeOK, Call
<1>3. CASE ChangeRules(new) /\ Goto(w, "written")
  <2> DEFINE c == [writer[w] EXCEPT !.pc = "written"]
  <2>1. /\ c \in Call /\ c.pc = "written" /\ c.command = message
        /\ writer' = [writer EXCEPT ![w] = c]
    BY <1>1, <1>2, <1>3 DEF Call, Goto
  <2>2. new \in SUBSET Rule
    BY <1>1, TargetType DEF IInv, TypeOK
  <2>3. rules' = new
    BY <1>3 DEF ChangeRules
  <2>4. message.proto \in pairs
        => IF message.block THEN Named(message) \in rules' ELSE Named(message) \notin rules'
    BY <1>1, <2>3, AddressTarget, BlockBit
  <2>5. /\ rules' \in SUBSET Rule /\ flight' \in [Slot -> Flight \cup Verdict \cup {None}]
        /\ Hooks'
    BY <1>3, <2>2, RulesChange DEF IInv
  <2> HIDE DEF c, new
  <2>6. writer' \in [Writer -> Call] /\ Device'
    BY <1>1, <2>1, <2>4, OneWriter
  <2> QED
    BY <1>1, <2>5, <2>6 DEF IInv, TypeOK, Call, Command
<1>4. CASE /\ 0 \in RuleNumber(message)
           /\ writer' = [writer EXCEPT ![w].pc = "written", ![w].failed = TRUE]
           /\ UNCHANGED <<rules, flight>>
  <2> DEFINE b == [writer[w] EXCEPT !.pc = "written"]
             c == [b EXCEPT !.failed = TRUE]
  <2>1. b \in Call /\ b.pc = "written" /\ b.command = message
    BY <1>1, <1>2 DEF Call
  <2>2. writer' = [writer EXCEPT ![w] = c]
    BY <1>4
  <2> HIDE DEF b
  <2>3. c \in Call /\ c.pc = "written" /\ c.command = message /\ c.failed
    BY <2>1 DEF Call
  <2>4. message.block
    BY <1>1, <1>4, BlockBit
  <2> HIDE DEF c
  <2>5. writer' \in [Writer -> Call] /\ Device'
    BY <1>1, <2>2, <2>3, <2>4, OneWriter
  <2> QED
    BY <1>1, <1>4, <2>5, HooksKept DEF IInv, TypeOK, Call, Command
<1> QED
  BY <1>3, <1>4 DEF ApplyRule

LEMMA RefuseStep == ASSUME IInv, NEW w \in Writer, Refuse(w) PROVE IInv'
<1> DEFINE c == [writer[w] EXCEPT !.pc = "written"]
<1>1. c \in Call /\ c.pc = "written" /\ c.command = writer[w].command
  BY DEF IInv, TypeOK, Call
<1>2. /\ writer' = [writer EXCEPT ![w] = c] /\ mutex = w /\ mutex' = w
      /\ UNCHANGED <<rules, mutex, message, flight, writes>>
      /\ writer[w].command = Malformed
  BY DEF Refuse, At, Goto, IInv, Device, DeviceInv, OwnMessage
<1> HIDE DEF c
<1>3. writer' \in [Writer -> Call] /\ Device'
  BY <1>1, <1>2, OtherTexts, OneWriter
<1> QED
  BY <1>2, <1>3, HooksKept DEF IInv, TypeOK, Call

LEMMA ResetStep ==
    ASSUME IInv, NEW w \in Writer, BeginReset(w) \/ EndReset(w)
    PROVE  IInv'
<1>1. writer[w] \in Call
  BY DEF IInv, TypeOK, Call
<1>2. /\ mutex = w /\ UNCHANGED <<rules, mutex, message, flight, writes>>
      /\ message = Reset /\ writer[w].command = Reset
  BY DEF BeginReset, EndReset, At, IInv, Device, DeviceInv, OwnMessage
<1>3. PICK c \in Call :
          /\ c.pc \in {"clearing", "written"} /\ c.command = Reset
          /\ writer' = [writer EXCEPT ![w] = c]
  <2>1. CASE BeginReset(w)
    <3> DEFINE b == [writer[w] EXCEPT !.pc = "clearing"]
               c == [b EXCEPT !.map = 1]
    <3>0. b \in Call /\ b.pc = "clearing" /\ b.command = Reset
      BY <1>1, <1>2 DEF Call
    <3> HIDE DEF b
    <3>1. c \in Call /\ c.pc = "clearing" /\ c.command = Reset
      BY <3>0 DEF Call
    <3> USE DEF b
    <3>2. writer' = [writer EXCEPT ![w] = c]
      BY <2>1 DEF BeginReset, IInv, TypeOK
    <3> QED
      BY <3>1, <3>2
  <2>2. CASE EndReset(w)
    <3> DEFINE c == [writer[w] EXCEPT !.pc = "written"]
    <3>1. c \in Call /\ c.pc = "written" /\ c.command = Reset
      BY <1>1, <1>2 DEF Call
    <3>2. writer' = [writer EXCEPT ![w] = c]
      BY <2>2 DEF EndReset, Goto
    <3> QED
      BY <3>1, <3>2
  <2> QED
    BY <2>1, <2>2
<1>4. writer' \in [Writer -> Call] /\ Device'
  BY <1>2, <1>3, OtherTexts, OneWriter
<1> QED
  BY <1>2, <1>4, HooksKept DEF IInv, TypeOK, Call

LEMMA ClearStep == ASSUME IInv, NEW w \in Writer, ClearMap(w) PROVE IInv'
<1>0. PICK i \in writer[w].map .. 16 :
          /\ \E left \in SUBSET InMap(i) : ChangeRules((rules \ InMap(i)) \cup left)
          /\ writer' = [writer EXCEPT ![w].map = i + 1]
  BY DEF ClearMap
<1>1. PICK left \in SUBSET InMap(i) : ChangeRules((rules \ InMap(i)) \cup left)
  BY <1>0
<1> DEFINE c == [writer[w] EXCEPT !.map = i + 1]
<1>2. i + 1 \in 0 .. 17
  BY DEF IInv, TypeOK
<1>3. c \in Call /\ c.pc = "clearing" /\ c.command = writer[w].command /\ c.command = Reset
  BY <1>2 DEF IInv, TypeOK, Call, ClearMap, At, Device, DeviceInv
<1>4. /\ writer' = [writer EXCEPT ![w] = c] /\ mutex = w
      /\ UNCHANGED <<mutex, message, writes>> /\ message = writer[w].command
  BY <1>0 DEF ClearMap, At, IInv, Device, DeviceInv, OwnMessage
<1>5. (rules \ InMap(i)) \cup left \in SUBSET Rule
  BY DEF InMap, IInv, TypeOK
<1>6. /\ rules' \in SUBSET Rule /\ flight' \in [Slot -> Flight \cup Verdict \cup {None}]
      /\ Hooks'
  BY <1>1, <1>5, RulesChange DEF IInv
<1> HIDE DEF c
<1>7. writer' \in [Writer -> Call] /\ Device'
  BY <1>3, <1>4, OneWriter
<1> QED
  BY <1>4, <1>6, <1>7 DEF IInv, TypeOK, Call

LEMMA IStep == IInv /\ [Next]_vars => IInv'
<1> SUFFICES ASSUME IInv, [Next]_vars PROVE IInv'
  OBVIOUS
<1>1. CASE \E w \in Writer : Open(w) \/ Write(w) \/ Release(w) \/ \E c \in Command : Copy(w, c)
  BY <1>1, OpenStep, ReleaseStep, CopyStep, ApplyStep, RefuseStep, ResetStep, ClearStep DEF Write
<1>2. CASE \E s \in Slot : (\E p \in Packet : Arrive(s, p)) \/ Check(s) \/ Leave(s)
  BY <1>2, ArriveStep, CheckStep, LeaveStep
<1>3. CASE UNCHANGED vars
  BY <1>3, HooksKept
     DEF vars, IInv, TypeOK, Device, DeviceInv, OwnMessage, AddressRulesHold, At
<1> QED
  BY <1>1, <1>2, <1>3 DEF Next

LEMMA Invariance == Spec => []IInv
  BY IInit, IStep, PTL DEF Spec

(***************************************************************************)
(* The theorems                                                            *)
(***************************************************************************)

\* Every variable keeps its type (netblock_module.c 90-130, 567-812).
THEOREM TypeCorrectness == Spec => []TypeOK
<1>1. IInv => TypeOK
  BY DEF IInv
<1> QED
  BY Invariance, <1>1, PTL

\* No process parses a command that another one wrote (netblock_module.c
\* 567-579, 809-812).
THEOREM OwnMessageAlways == Spec => []OwnMessage
<1>1. IInv => OwnMessage
  BY DEF IInv, Device
<1> QED
  BY Invariance, <1>1, PTL

\* The last command about an address, or an address and port, decides on it,
\* unless its map could not grow (netblock_module.c 579-759, kmap.c 140-163).
THEOREM AddressRulesHoldAlways == Spec => []AddressRulesHold
<1>1. IInv => AddressRulesHold
  BY DEF IInv, Device
<1> QED
  BY Invariance, <1>1, PTL

\* No rule that stands while a packet is looked up, and that the code reads as
\* documented, lets it through, although no lock covers the look-ups together
\* (netblock_module.c 217-438).
THEOREM AcceptedWasAllowedAlways == Spec => []AcceptedWasAllowed
<1>1. IInv => AcceptedWasAllowed
  BY DEF IInv, Hooks
<1> QED
  BY Invariance, <1>1, PTL

\* No packet is dropped for a rule that was not there (netblock_module.c
\* 217-438).
THEOREM DroppedWasBlockedAlways == Spec => []DroppedWasBlocked
<1>1. IInv => DroppedWasBlocked
  BY DEF IInv, Hooks
<1> QED
  BY Invariance, <1>1, PTL
=============================================================================
