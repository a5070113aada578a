--------------------------- MODULE TransducerProofs ---------------------------
(***************************************************************************)
(* What Excalibur is told of a sensor is what the filter does, for any     *)
(* number of requests, transducers and faults.                             *)
(*                                                                         *)
(* Neither property is inductive.  AcksAgree says nothing of the time when *)
(* the lock is taken: LockInv says what each holder is about to write, and *)
(* which of them the connection to the filter is for.  SuccessWasHeld      *)
(* speaks of requests that have got their ack: HeldInv says the same of    *)
(* every ack that is under way after an answer, and of the rules from      *)
(* which the heartbeat will make one.                                      *)
(***************************************************************************)
EXTENDS TransducerControl, SequenceTheorems, TLAPS

\* A request at work is for a transducer.
ReqTyped == \A q \in Request : req[q].pc \notin {"idle", "ended"} => req[q].t \in Transducer

Agree(t) == filter[t] # None /\ acks[t] # None => acks[t] = filter[t]

\* The listener has had its answer, or is done waiting for it, and writes an ack.
Acking == lock = "listener" /\ conn \in {"answered", "eof"}

\* Who has the lock and the connection, and what the acks lack until the lock is
\* given back.
LockInv ==
    /\ lock = "listener" <=> (listener # None /\ listener.t \in Sensor)
    /\ lock = "heartbeat" <=> heartbeat.pc # "rest"
    /\ lock = "heartbeat" /\ conn # "none" => heartbeat.pc \in {"asked", "reminded"}
    /\ Acking =>
          \A t \in Sensor : IF t = listener.t
                            THEN filter[t] # None => filter[t] = listener.enabled
                            ELSE Agree(t)
    /\ heartbeat.pc = "ack" =>
          \A t \in Sensor : filter[t] # None => filter[t] = heartbeat.rules[t]
    /\ ~ Acking /\ heartbeat.pc # "ack" => \A t \in Sensor : Agree(t)

\* Any ack that q might take for its own, and that an answer stands behind, is of
\* a rule the filter was given.
HeldFor(q) ==
    LET t == req[q].t
        enable == req[q].enable
    IN  \/ req[q].held
        \/ /\ filter[t] # enable
           /\ listener # None /\ listener.t = t /\ conn = "answered" => listener.enabled # enable
           /\ heartbeat.pc = "ack" => heartbeat.rules[t] # enable

HeldInv ==
    \A q \in Request :
        req[q].t \in Sensor =>
            /\ req[q].pc \in {"open", "wait"} => HeldFor(q)
            /\ req[q].pc = "write" /\ req[q].running => req[q].held \/ req[q].blind

IInv == TypeOK /\ ReqTyped /\ LockInv /\ HeldInv

LEMMA BlankFacts ==
    ASSUME NEW pc \in {"idle", "insert", "open", "wait", "write", "ended"}
    PROVE  Blank(pc) \in Call /\ Blank(pc).pc = pc /\ Blank(pc).t = None
BY DEF Blank, Call

LEMMA IInit == Init => IInv
<1> SUFFICES ASSUME Init PROVE IInv
  OBVIOUS
<1>1. NoRules \in Rules
  BY DEF NoRules, Rules
<1>2. TypeOK
  <2>1. req \in [Request -> Call]
    BY BlankFacts DEF Init
  <2>2. feed \in Seq(Command) /\ faults \in 0..MaxFaults
    BY TransducerAssumption DEF Init
  <2> QED
    BY <1>1, <2>1, <2>2 DEF Init, TypeOK, Resting
<1>3. ReqTyped /\ HeldInv
  BY DEF Init, ReqTyped, HeldInv, Blank
<1>4. LockInv
  <2>1. \A t \in Sensor : Agree(t)
    BY DEF Init, Agree, NoRules, Transducer
  <2>2. lock # "listener" /\ lock # "heartbeat" /\ listener = None /\ heartbeat.pc = "rest"
    BY TransducerAssumption DEF Init, Resting
  <2> QED
    BY <2>1, <2>2 DEF LockInv, Acking
<1> QED
  BY <1>2, <1>3, <1>4 DEF IInv

LEMMA MergeFacts ==
    ASSUME NEW old \in Rules, NEW new \in Rules
    PROVE  /\ Merge(old, new) \in Rules
           /\ \A t \in Transducer : Merge(old, new)[t] = IF new[t] = None THEN old[t] ELSE new[t]
BY DEF Merge, Rules

\* A request q after it was told, in the step that is described, by an ack sent
\* for an answer or without one.
Told(q, blind) ==
    /\ req'[q] \in Call /\ req'[q].pc = "write" /\ req'[q].t = req[q].t
    /\ req'[q].running = req[q].running /\ req'[q].held = req[q].held /\ req'[q].blind = blind

\* What becomes of a request when acks of the rules are written.
LEMMA DeliverFacts ==
    ASSUME TypeOK, NEW rules \in Rules, NEW by, NEW blind \in BOOLEAN, Deliver(rules, by, blind)
    PROVE  /\ req' \in [Request -> Call]
           /\ \A q \in Request :
                 \/ req'[q] = req[q]
                 \/ req'[q] = Blank("ended")
                 \/ req[q].pc = "wait" /\ rules[req[q].t] = req[q].enable /\ Told(q, blind)
<1>1. PICK old : req' = [q \in Request |->
          IF q \notin {p \in Request : req[p].pc = "wait" /\ rules[req[p].t] # None} THEN req[q]
          ELSE IF q \notin old /\ Succeeds(q, rules[req[q].t])
               THEN [req[q] EXCEPT !.pc = "write", !.blind = blind] ELSE Blank("ended")]
  BY DEF Deliver
<1>2. ASSUME NEW q \in Request, req'[q] = [req[q] EXCEPT !.pc = "write", !.blind = blind]
      PROVE  Told(q, blind)
  <2> DEFINE b == [req[q] EXCEPT !.pc = "write"]
  <2>1. /\ b \in Call /\ b.pc = "write" /\ b.t = req[q].t
        /\ b.running = req[q].running /\ b.held = req[q].held
    BY DEF TypeOK, Call
  <2>2. req'[q] = [b EXCEPT !.blind = blind]
    BY <1>2
  <2> HIDE DEF b
  <2> QED
    BY <2>1, <2>2 DEF Told, Call
<1>3. ASSUME NEW q \in Request
      PROVE  \/ req'[q] = req[q]
             \/ req'[q] = Blank("ended")
             \/ req[q].pc = "wait" /\ rules[req[q].t] = req[q].enable /\ Told(q, blind)
  <2>1. CASE req[q].pc = "wait" /\ req'[q] = [req[q] EXCEPT !.pc = "write", !.blind = blind]
             /\ Succeeds(q, rules[req[q].t])
    BY <1>2, <2>1 DEF Succeeds
  <2>2. CASE req'[q] = req[q] \/ req'[q] = Blank("ended")
    BY <2>2
  <2> QED
    BY <1>1, <2>1, <2>2
<1>4. \A q \in Request : req'[q] \in Call
  BY <1>3, BlankFacts DEF TypeOK, Told
<1> QED
  BY <1>1, <1>3, <1>4

\* A step that changes requests only, and none of them in a way that matters.
LEMMA RequestStep ==
    ASSUME IInv, NEW q \in Request,
           UNCHANGED <<acks, lock, listener, heartbeat, conn, filter>>,
           TypeOK', ReqTyped',
           \A p \in Request \ {q} : req'[p] = req[p],
           req'[q].t \in Sensor =>
               /\ req'[q].pc \in {"open", "wait"} => HeldFor(q)'
               /\ req'[q].pc = "write" /\ req'[q].running => req'[q].held \/ req'[q].blind
    PROVE  IInv'
<1>1. LockInv'
  BY DEF IInv, LockInv, Acking, Agree
<1>2. HeldInv'
  <2> SUFFICES ASSUME NEW p \in Request, req'[p].t \in Sensor
               PROVE  /\ req'[p].pc \in {"open", "wait"} => HeldFor(p)'
                      /\ req'[p].pc = "write" /\ req'[p].running => req'[p].held \/ req'[p].blind
    BY DEF HeldInv
  <2>1. CASE p = q
    BY <2>1
  <2>2. CASE p # q
    BY <2>2 DEF IInv, HeldInv, HeldFor
  <2> QED
    BY <2>1, <2>2
<1> QED
  BY <1>1, <1>2 DEF IInv

LEMMA StartStep == ASSUME IInv, NEW q \in Request, Start(q) PROVE IInv'
<1> DEFINE running == (state = "RUNNING")
<1>1. running \in BOOLEAN
  OBVIOUS
<1>2. PICK t \in Asks[q], enable \in BOOLEAN :
         req' = [req EXCEPT ![q] = [@ EXCEPT !.pc = "insert", !.t = t, !.enable = enable,
                                             !.running = running]]
  BY DEF Start
<1>0. t \in Transducer
  BY TransducerAssumption DEF TransducerAssumption
<1> HIDE DEF running
<1>3. /\ req'[q].pc = "insert" /\ req'[q].t = t /\ req'[q] \in Call
      /\ \A p \in Request \ {q} : req'[p] = req[p]
  BY <1>0, <1>1, <1>2 DEF IInv, TypeOK, Call
<1>4. req' \in [Request -> Call]
  BY <1>2, <1>3 DEF IInv, TypeOK
<1>5. TypeOK' /\ ReqTyped'
  BY <1>0, <1>3, <1>4 DEF IInv, TypeOK, ReqTyped, Start, merlin, filterVars
<1> QED
  BY <1>3, <1>5, RequestStep DEF Start, merlin, filterVars

LEMMA EndStep ==
    ASSUME IInv, NEW q \in Request, OpenFeed(q) \/ TimeOut(q) \/ WriteEntry(q) PROVE IInv'
<1>1. CASE OpenFeed(q)
  <2>1. req'[q] = [req[q] EXCEPT !.pc = "wait"] /\ \A p \in Request \ {q} : req'[p] = req[p]
    BY <1>1 DEF IInv, TypeOK, OpenFeed
  <2>2. TypeOK' /\ ReqTyped'
    BY <1>1 DEF IInv, TypeOK, Call, ReqTyped, OpenFeed, merlin, filterVars
  <2>3. req'[q].t \in Sensor => HeldFor(q)' /\ req'[q].pc = "wait"
    BY <1>1, <2>1 DEF IInv, TypeOK, Call, HeldInv, HeldFor, OpenFeed, merlin, filterVars
  <2> QED
    BY <1>1, <2>1, <2>2, <2>3, RequestStep DEF OpenFeed, merlin, filterVars
<1>2. CASE TimeOut(q) \/ WriteEntry(q)
  <2>1. req'[q] = Blank("ended") /\ \A p \in Request \ {q} : req'[p] = req[p]
    BY <1>2 DEF IInv, TypeOK, TimeOut, WriteEntry
  <2>2. req'[q].pc = "ended" /\ req' \in [Request -> Call]
    BY <1>2, <2>1, BlankFacts DEF IInv, TypeOK, TimeOut, WriteEntry
  <2>3. TypeOK' /\ ReqTyped'
    BY <1>2, <2>1, <2>2 DEF IInv, TypeOK, ReqTyped, TimeOut, WriteEntry, merlin, filterVars
  <2> QED
    BY <1>2, <2>1, <2>2, <2>3, RequestStep DEF TimeOut, WriteEntry, merlin, filterVars
<1> QED
  BY <1>1, <1>2

LEMMA InsertStep == ASSUME IInv, NEW q \in Request, Insert(q) PROVE IInv'
<1> DEFINE t == req[q].t
           held == (req[q].enable \in {filter[t]} \cup UnderWay(t))
           row == [t |-> t, enabled |-> req[q].enable, by |-> q]
<1>1. held \in BOOLEAN
  OBVIOUS
<1>2. t \in Transducer /\ req[q].enable \in BOOLEAN /\ row \in Command
  BY DEF IInv, TypeOK, Call, ReqTyped, Insert, Command
<1>3. /\ req' = [req EXCEPT ![q].pc = IF req[q].running THEN "open" ELSE "write",
                           ![q].held = held]
      /\ feed' = IF on THEN Append(feed, row) ELSE feed
      /\ commands' = [commands EXCEPT ![t] = req[q].enable]
      /\ UNCHANGED <<state, acks, on, lock, listener, heartbeat, conn, dead, filter, up, faults, bypassed>>
  BY DEF Insert, filterVars
<1>4. held \/ ~(req[q].enable \in {filter[t]} \cup UnderWay(t))
  OBVIOUS
<1> HIDE DEF held
<1>5. /\ \A p \in Request \ {q} : req'[p] = req[p]
      /\ req'[q].pc = IF req[q].running THEN "open" ELSE "write"
      /\ req'[q].t = t /\ req'[q].enable = req[q].enable /\ req'[q].running = req[q].running
      /\ req'[q].held = held
      /\ req'[q] \in Call
  <2> DEFINE b == [req[q] EXCEPT !.pc = IF req[q].running THEN "open" ELSE "write"]
             c == [b EXCEPT !.held = held]
  <2>1. /\ b \in Call /\ b.pc = IF req[q].running THEN "open" ELSE "write"
        /\ b.t = t /\ b.enable = req[q].enable /\ b.running = req[q].running
    BY DEF IInv, TypeOK, Call
  <2>2. req'[q] = c /\ \A p \in Request \ {q} : req'[p] = req[p]
    BY <1>3 DEF IInv, TypeOK
  <2> HIDE DEF b
  <2>3. /\ c \in Call /\ c.pc = b.pc /\ c.t = b.t /\ c.enable = b.enable
        /\ c.running = b.running /\ c.held = held
    BY <1>1, <2>1 DEF Call
  <2> HIDE DEF c
  <2> QED
    BY <2>1, <2>2, <2>3
<1>6. feed' \in Seq(Command)
  BY <1>2, <1>3, AppendProperties DEF IInv, TypeOK
<1>7. commands' \in Rules
  BY <1>2, <1>3 DEF IInv, TypeOK, Rules
<1>8. req' \in [Request -> Call]
  BY <1>3, <1>5 DEF IInv, TypeOK
<1>9. TypeOK' /\ ReqTyped'
  BY <1>2, <1>3, <1>5, <1>6, <1>7, <1>8 DEF IInv, TypeOK, ReqTyped
<1>10. HeldFor(q)'
  <2>1. listener # None => listener.enabled \in BOOLEAN
    BY DEF IInv, TypeOK, Command
  <2> QED
    BY <1>2, <1>3, <1>5, <1>4, <2>1 DEF HeldFor, UnderWay
<1>11. req'[q].pc = "write" => ~ req'[q].running
  BY <1>5
<1> QED
  BY <1>3, <1>5, <1>9, <1>10, <1>11, RequestStep

LEMMA FeedFacts ==
    ASSUME IInv, Takes
    PROVE  Head(feed) \in Command /\ Tail(feed) \in Seq(Command) /\ Head(feed) # None
BY HeadTailProperties, TransducerAssumption DEF IInv, TypeOK, Takes

\* Nothing that acks or requests depend on changes until the filter answers.
LEMMA TakeStep == ASSUME IInv, TakeSensor \/ TakeActuator \/ ListenerRaises PROVE IInv'
<1> DEFINE row == Head(feed)
<1>1. row \in Command /\ Tail(feed) \in Seq(Command) /\ row # None /\ listener = None
  BY FeedFacts DEF Takes, TakeSensor, TakeActuator, ListenerRaises
<1>2. CASE TakeActuator
  <2>1. /\ row.t \notin Sensor /\ listener' \in {None, row}
        /\ feed' = Tail(feed)
        /\ UNCHANGED <<req, state, commands, acks, on, lock, heartbeat, conn, dead, up, filter, faults, bypassed>>
    BY <1>2, TransducerAssumption DEF TakeActuator, excalibur, filterVars
  <2>2. TypeOK' /\ ReqTyped'
    BY <1>1, <2>1 DEF IInv, TypeOK, ReqTyped
  <2> HIDE DEF row
  <2>3. LockInv'
    BY <1>1, <2>1 DEF IInv, LockInv, Acking, Agree
  <2>4. HeldInv'
    <3>1. ASSUME NEW q \in Request, req[q].t \in Sensor, HeldFor(q) PROVE HeldFor(q)'
      BY <1>1, <2>1, <3>1 DEF HeldFor
    <3> QED
      BY <2>1, <3>1 DEF IInv, HeldInv
  <2> QED
    BY <2>2, <2>3, <2>4 DEF IInv
<1>3. CASE TakeSensor /\ ~ up
  <2>1. /\ feed' = Tail(feed)
        /\ UNCHANGED <<req, state, commands, acks, on, lock, listener, heartbeat, conn, dead, up, filter, faults, bypassed>>
    BY <1>3 DEF TakeSensor, excalibur, filterVars
  <2>2. TypeOK' /\ ReqTyped'
    BY <1>1, <2>1 DEF IInv, TypeOK, ReqTyped
  <2>3. LockInv' /\ HeldInv'
    BY <2>1 DEF IInv, LockInv, Acking, Agree, HeldInv, HeldFor
  <2> QED
    BY <2>2, <2>3 DEF IInv
<1>4. CASE TakeSensor /\ up
  <2>1. /\ row.t \in Sensor /\ lock = None
        /\ feed' = Tail(feed) /\ listener' = row /\ lock' = "listener" /\ conn' = "sent"
        /\ UNCHANGED <<req, state, commands, acks, on, heartbeat, dead, up, filter, faults, bypassed>>
    BY <1>4 DEF TakeSensor, excalibur, filterVars
  <2>2. TypeOK' /\ ReqTyped'
    BY <1>1, <2>1 DEF IInv, TypeOK, ReqTyped
  <2> HIDE DEF row
  <2>3. LockInv'
    BY <1>1, <2>1, TransducerAssumption DEF IInv, LockInv, Acking, Agree
  <2>4. HeldInv'
    BY <2>1 DEF IInv, HeldInv, HeldFor
  <2> QED
    BY <2>2, <2>3, <2>4 DEF IInv
<1>5. CASE ListenerRaises
  <2>1. /\ feed' = Tail(feed) /\ dead' = dead \cup {"listener"}
        /\ faults < MaxFaults /\ faults' = faults + 1
        /\ UNCHANGED <<req, state, commands, acks, on, lock, listener, heartbeat, conn, up, filter, bypassed>>
    BY <1>5 DEF ListenerRaises, excalibur, filterVars
  <2>2. faults' \in 0..MaxFaults
    BY <2>1, TransducerAssumption DEF IInv, TypeOK, TransducerAssumption
  <2>3. TypeOK' /\ ReqTyped'
    BY <1>1, <2>1, <2>2 DEF IInv, TypeOK, ReqTyped
  <2>4. LockInv' /\ HeldInv'
    BY <2>1 DEF IInv, LockInv, Acking, Agree, HeldInv, HeldFor
  <2> QED
    BY <2>3, <2>4 DEF IInv
<1> QED
  BY <1>2, <1>3, <1>4, <1>5

\* What becomes of the requests whose rule the filter is given.
LEMMA HeldFacts ==
    ASSUME TypeOK, NEW rules, req' = Held(rules)
    PROVE  /\ req' \in [Request -> Call]
           /\ \A q \in Request :
                 /\ req'[q].pc = req[q].pc /\ req'[q].t = req[q].t
                 /\ req'[q].enable = req[q].enable /\ req'[q].running = req[q].running
                 /\ req'[q].blind = req[q].blind
                 /\ req[q].held => req'[q].held
                 /\ req[q].pc \in {"open", "wait"} /\ rules[req[q].t] = req[q].enable => req'[q].held
<1> DEFINE given(q) == req[q].pc \in {"open", "wait"} /\ rules[req[q].t] = req[q].enable
<1>1. ASSUME NEW q \in Request
      PROVE  /\ req'[q] = IF given(q) THEN [req[q] EXCEPT !.held = TRUE] ELSE req[q]
             /\ req[q] \in Call
  BY DEF Held, TypeOK
<1>2. ASSUME NEW q \in Request
      PROVE  /\ req'[q] \in Call
             /\ req'[q].pc = req[q].pc /\ req'[q].t = req[q].t
             /\ req'[q].enable = req[q].enable /\ req'[q].running = req[q].running
             /\ req'[q].blind = req[q].blind
             /\ req[q].held => req'[q].held
             /\ given(q) => req'[q].held
  <2>1. CASE given(q)
    <3>1. req'[q] = [req[q] EXCEPT !.held = TRUE]
      BY <1>1, <2>1
    <3> QED
      BY <1>1, <3>1 DEF Call
  <2>2. CASE ~ given(q)
    BY <1>1, <2>2
  <2> QED
    BY <2>1, <2>2
<1>3. req' \in [Request -> Call]
  BY <1>2 DEF Held
<1> QED
  BY <1>2, <1>3

\* The filter carries out a command: from now on its ack is owed.
LEMMA AnswerListenerStep == ASSUME IInv, FilterAnswers, AnswerListener PROVE IInv'
<1> DEFINE rules == [NoRules EXCEPT ![listener.t] = listener.enabled]
           more == bypassed \/ Owed(listener.t) # {}
<1>1. /\ lock = "listener" /\ conn = "sent" /\ conn' = "answered"
      /\ filter' = Merge(filter, rules) /\ req' = Held(rules) /\ bypassed' = more
      /\ UNCHANGED <<state, commands, acks, on, feed, lock, listener, heartbeat, dead, up, faults>>
  BY DEF FilterAnswers, AnswerListener
<1>2. more \in BOOLEAN
  OBVIOUS
<1>3. /\ listener # None /\ listener.t \in Sensor /\ listener.t \in Transducer
      /\ listener.enabled \in BOOLEAN /\ heartbeat.pc = "rest"
      /\ \A t \in Sensor : Agree(t)
  BY <1>1, TransducerAssumption DEF IInv, TypeOK, LockInv, Acking, Command
<1>4. /\ rules \in Rules /\ rules[listener.t] = listener.enabled
      /\ \A t \in Transducer : t # listener.t => rules[t] = None
  BY <1>3 DEF Rules, NoRules
<1> HIDE DEF more, rules
<1>5. /\ filter' \in Rules /\ filter'[listener.t] = listener.enabled
      /\ \A t \in Transducer : t # listener.t => filter'[t] = filter[t]
  BY <1>1, <1>3, <1>4, MergeFacts, TransducerAssumption DEF IInv, TypeOK
<1>6. /\ req' \in [Request -> Call]
      /\ \A q \in Request :
            /\ req'[q].pc = req[q].pc /\ req'[q].t = req[q].t
            /\ req'[q].enable = req[q].enable /\ req'[q].running = req[q].running
            /\ req'[q].blind = req[q].blind
            /\ req[q].held => req'[q].held
            /\ req[q].pc \in {"open", "wait"} /\ rules[req[q].t] = req[q].enable => req'[q].held
  BY <1>1, HeldFacts DEF IInv
<1>7. TypeOK' /\ ReqTyped'
  BY <1>1, <1>2, <1>5, <1>6 DEF IInv, TypeOK, ReqTyped
<1>8. LockInv'
  BY <1>1, <1>3, <1>5, TransducerAssumption DEF IInv, LockInv, Acking, Agree, Transducer
<1>9. HeldInv'
  <2> SUFFICES ASSUME NEW q \in Request, req'[q].t \in Sensor
               PROVE  /\ req'[q].pc \in {"open", "wait"} => HeldFor(q)'
                      /\ req'[q].pc = "write" /\ req'[q].running => req'[q].held \/ req'[q].blind
    BY DEF HeldInv
  <2>1. CASE req[q].t = listener.t
    BY <1>1, <1>3, <1>4, <1>5, <1>6, <2>1 DEF IInv, HeldInv, HeldFor
  <2>2. CASE req[q].t # listener.t
    BY <1>1, <1>3, <1>5, <1>6, <2>2 DEF IInv, HeldInv, HeldFor, Transducer
  <2> QED
    BY <2>1, <2>2
<1> QED
  BY <1>7, <1>8, <1>9 DEF IInv

LEMMA SendAckStep == ASSUME IInv, SendAck PROVE IInv'
<1> DEFINE rules == [NoRules EXCEPT ![listener.t] = listener.enabled]
           blind == listener.t \in Sensor /\ conn = "eof"
<1>1. listener \in Command /\ listener.t \in Transducer /\ listener.enabled \in BOOLEAN
  BY DEF SendAck, IInv, TypeOK, Command
<1>2. /\ rules \in Rules /\ rules[listener.t] = listener.enabled
      /\ \A t \in Transducer : t # listener.t => rules[t] = None
  BY <1>1 DEF Rules, NoRules
<1>3. /\ listener # None /\ listener' = None
      /\ lock' = IF listener.t \in Sensor THEN None ELSE lock
      /\ acks' = Merge(acks, rules) /\ Deliver(rules, listener.by, blind)
      /\ listener.t \in Sensor => conn \in {"answered", "eof"} /\ conn' = "none"
      /\ listener.t \notin Sensor => conn' = conn
      /\ UNCHANGED <<state, commands, on, feed, heartbeat, dead, up, filter, faults, bypassed>>
  BY DEF SendAck, filterVars
<1>b. blind \in BOOLEAN /\ (listener.t \in Sensor /\ ~ blind => conn = "answered")
  BY <1>3
<1> HIDE DEF rules, blind
<1>4. /\ acks' \in Rules /\ acks'[listener.t] = listener.enabled
      /\ \A t \in Transducer : t # listener.t => acks'[t] = acks[t]
  BY <1>1, <1>2, <1>3, MergeFacts, TransducerAssumption DEF IInv, TypeOK
<1>5. /\ req' \in [Request -> Call]
      /\ \A q \in Request :
            \/ req'[q] = req[q]
            \/ req'[q] = Blank("ended")
            \/ req[q].pc = "wait" /\ rules[req[q].t] = req[q].enable /\ Told(q, blind)
  BY <1>2, <1>3, <1>b, DeliverFacts DEF IInv
<1>6. TypeOK' /\ ReqTyped'
  <2>1. /\ lock' \in {"listener", "heartbeat", None}
        /\ conn' \in {"none", "sent", "answered", "broken", "eof"}
    BY <1>3 DEF IInv, TypeOK
  <2>2. ReqTyped'
    BY <1>5, BlankFacts DEF IInv, ReqTyped, Told
  <2> QED
    BY <1>3, <1>4, <1>5, <2>1, <2>2 DEF IInv, TypeOK
<1>7. LockInv'
  <2>1. CASE listener.t \in Sensor
    <3>1. lock = "listener" /\ lock' = None /\ heartbeat'.pc = "rest"
      BY <1>3, <2>1 DEF IInv, LockInv
    <3>2. \A t \in Sensor : Agree(t)'
      BY <1>3, <1>4, <3>1, <2>1 DEF IInv, LockInv, Acking, Agree, Transducer
    <3> QED
      BY <1>3, <3>1, <3>2, TransducerAssumption DEF LockInv, Acking
  <2>2. CASE listener.t \notin Sensor
    BY <1>3, <1>4, <2>2 DEF IInv, LockInv, Acking, Agree, Transducer
  <2> QED
    BY <2>1, <2>2
<1>8. HeldInv'
  <2> SUFFICES ASSUME NEW q \in Request, req'[q].t \in Sensor
               PROVE  /\ req'[q].pc \in {"open", "wait"} => HeldFor(q)'
                      /\ req'[q].pc = "write" /\ req'[q].running => req'[q].held \/ req'[q].blind
    BY DEF HeldInv
  <2>1. CASE req'[q] = req[q]
    BY <1>3, <2>1 DEF IInv, HeldInv, HeldFor, LockInv
  <2>2. CASE req'[q] = Blank("ended")
    BY <2>2, BlankFacts, TransducerAssumption DEF Transducer
  <2>3. CASE req[q].pc = "wait" /\ rules[req[q].t] = req[q].enable /\ Told(q, blind)
    <3>1. req[q] \in Call /\ req[q].enable # None /\ req[q].t \in Sensor
      BY <2>3, TransducerAssumption DEF IInv, TypeOK, Call, Told
    <3>2. req[q].t = listener.t
      BY <1>2, <2>3, <3>1 DEF Transducer
    <3>3. HeldFor(q)
      BY <2>3, <3>1 DEF IInv, HeldInv
    <3>4. req[q].held \/ blind
      BY <1>2, <1>3, <1>b, <2>3, <3>1, <3>2, <3>3 DEF HeldFor
    <3> QED
      BY <2>3, <3>4 DEF Told
  <2> QED
    BY <1>5, <2>1, <2>2, <2>3
<1> QED
  BY <1>6, <1>7, <1>8 DEF IInv

\* The heartbeat's steps on its own: it asks, reads the commands, sends them, or
\* gives the lock back without an ack.
LEMMA BeatStep ==
    ASSUME IInv, Beat \/ ReadCommands \/ Repopulate \/ HeartbeatGivesUp \/ HeartbeatRaises
    PROVE  IInv'
<1>1. NoRules \in Rules
  BY DEF NoRules, Rules
<1>2. /\ heartbeat.pc # "ack"
      /\ lock = None \/ lock = "heartbeat"
      /\ heartbeat.pc = "rest" <=> lock = None
      /\ ~ Acking /\ ~ (listener # None /\ listener.t \in Sensor)
      /\ \A t \in Sensor : Agree(t)
  BY TransducerAssumption
     DEF Beat, ReadCommands, Repopulate, HeartbeatGivesUp, HeartbeatRaises, IInv, LockInv, Acking
<1>3. UNCHANGED <<req, state, commands, acks, on, feed, listener, up, filter, faults, bypassed>>
  BY DEF Beat, ReadCommands, Repopulate, HeartbeatGivesUp, HeartbeatRaises, excalibur, filterVars
<1>4. /\ heartbeat' \in [pc : {"rest", "asked", "send", "reminded"}, rules : Rules]
      /\ heartbeat'.pc = "rest" => lock' = None
      /\ heartbeat'.pc # "rest" => lock' = "heartbeat"
      /\ conn' \in {"none", "sent", "answered", "broken", "eof"}
      /\ lock' = "heartbeat" /\ conn' # "none" => heartbeat'.pc \in {"asked", "reminded"}
      /\ dead' = dead \/ dead' = dead \cup {"heartbeat"}
  <2>1. CASE Beat
    BY <1>2, <2>1 DEF Beat, IInv, TypeOK
  <2>2. CASE ReadCommands
    <3>1. \/ heartbeat' = Resting /\ lock' = None
          \/ heartbeat' = [pc |-> "send", rules |-> commands] /\ lock' = lock
      BY <2>2 DEF ReadCommands
    <3>2. heartbeat.pc = "commands" /\ conn' = conn /\ dead' = dead /\ lock = "heartbeat" /\ conn = "none"
      BY <1>2, <2>2 DEF ReadCommands, IInv, LockInv
    <3>3. lock' = None => lock' # "heartbeat"
      BY TransducerAssumption
    <3> QED
      BY <1>1, <3>1, <3>2, <3>3 DEF Resting, IInv, TypeOK
  <2>3. CASE Repopulate
    <3>1. heartbeat.pc = "send" /\ lock = "heartbeat" /\ conn = "none" /\ dead' = dead
      BY <1>2, <2>3 DEF Repopulate, IInv, LockInv
    <3>2. \/ /\ heartbeat' = [heartbeat EXCEPT !.pc = "reminded"] /\ conn' = "sent" /\ lock' = lock
          \/ heartbeat' = Resting /\ lock' = None /\ conn' = conn
      BY <2>3 DEF Repopulate
    <3>3. lock' = None => lock' # "heartbeat"
      BY TransducerAssumption
    <3> QED
      BY <1>1, <3>1, <3>2, <3>3 DEF Resting, IInv, TypeOK
  <2>4. CASE HeartbeatGivesUp \/ HeartbeatRaises
    BY <1>1, <2>4, TransducerAssumption DEF HeartbeatGivesUp, HeartbeatRaises, Resting
  <2> QED
    BY <2>1, <2>2, <2>3, <2>4
<1>5. TypeOK' /\ ReqTyped'
  BY <1>3, <1>4 DEF IInv, TypeOK, ReqTyped
<1>6. LockInv'
  BY <1>2, <1>3, <1>4, TransducerAssumption DEF LockInv, Acking, Agree
<1>7. HeldInv'
  <2>1. ASSUME NEW q \in Request, req[q].t \in Sensor, HeldFor(q) PROVE HeldFor(q)'
    BY <1>2, <1>3, <1>4, <2>1 DEF HeldFor
  <2> QED
    BY <1>3, <2>1 DEF IInv, HeldInv
<1> QED
  BY <1>5, <1>6, <1>7 DEF IInv

\* The listener gives the lock back without an ack.
LEMMA GiveUpStep == ASSUME IInv, ListenerGivesUp PROVE IInv'
<1>1. /\ lock = "listener" /\ conn = "broken" /\ listener' = None /\ lock' = None /\ conn' = "none"
      /\ UNCHANGED <<req, state, commands, acks, on, feed, heartbeat, dead, up, filter, faults, bypassed>>
  BY DEF ListenerGivesUp, excalibur, filterVars
<1>2. TypeOK' /\ ReqTyped'
  BY <1>1 DEF IInv, TypeOK, ReqTyped
<1>3. LockInv'
  BY <1>1, TransducerAssumption DEF IInv, LockInv, Acking, Agree
<1>4. HeldInv'
  BY <1>1 DEF IInv, HeldInv, HeldFor
<1> QED
  BY <1>2, <1>3, <1>4 DEF IInv

\* The filter tells the heartbeat its rules, after taking the commands it was sent.
LEMMA AnswerHeartbeatStep == ASSUME IInv, FilterAnswers, AnswerHeartbeat PROVE IInv'
<1> DEFINE rules == heartbeat.rules
<1>1. rules \in Rules /\ filter \in Rules
  BY DEF IInv, TypeOK
<1>2. /\ lock = "heartbeat" /\ heartbeat.pc \in {"asked", "reminded"}
      /\ ~ Acking /\ ~ (listener # None /\ listener.t \in Sensor)
      /\ \A t \in Sensor : Agree(t)
  BY DEF IInv, LockInv, Acking, AnswerHeartbeat
<1>3. /\ conn' = "none"
      /\ UNCHANGED <<state, commands, acks, on, feed, lock, listener, dead, up, faults, bypassed>>
  BY DEF FilterAnswers, AnswerHeartbeat
<1>4. CASE heartbeat.pc = "asked"
  <2>1. /\ heartbeat' \in [pc : {"commands", "ack"}, rules : Rules] /\ heartbeat'.rules = filter
        /\ UNCHANGED <<filter, req>>
    BY <1>1, <1>4 DEF AnswerHeartbeat
  <2>2. TypeOK' /\ ReqTyped'
    BY <1>3, <2>1 DEF IInv, TypeOK, ReqTyped
  <2>3. LockInv'
    BY <1>2, <1>3, <2>1 DEF LockInv, Acking, Agree
  <2>4. HeldInv'
    <3>1. ASSUME NEW q \in Request, req[q].t \in Sensor, HeldFor(q) PROVE HeldFor(q)'
      BY <1>3, <2>1, <3>1 DEF HeldFor
    <3> QED
      BY <2>1, <3>1 DEF IInv, HeldInv
  <2> QED
    BY <2>2, <2>3, <2>4 DEF IInv
<1>5. CASE heartbeat.pc = "reminded"
  <2>1. filter' = Merge(filter, rules) /\ heartbeat' = [pc |-> "ack", rules |-> filter'] /\ req' = Held(rules)
    BY <1>5 DEF AnswerHeartbeat
  <2>2. /\ filter' \in Rules
        /\ \A t \in Transducer : filter'[t] = IF rules[t] = None THEN filter[t] ELSE rules[t]
    BY <1>1, <2>1, MergeFacts
  <2>3. heartbeat' \in [pc : {"ack"}, rules : Rules] /\ heartbeat'.rules = filter'
    BY <2>1, <2>2
  <2>4. /\ req' \in [Request -> Call]
        /\ \A q \in Request :
              /\ req'[q].pc = req[q].pc /\ req'[q].t = req[q].t
              /\ req'[q].enable = req[q].enable /\ req'[q].running = req[q].running
              /\ req'[q].blind = req[q].blind
              /\ req[q].held => req'[q].held
              /\ req[q].pc \in {"open", "wait"} /\ rules[req[q].t] = req[q].enable => req'[q].held
    BY <2>1, HeldFacts DEF IInv
  <2> HIDE DEF rules
  <2>5. TypeOK' /\ ReqTyped'
    BY <1>3, <2>2, <2>3, <2>4 DEF IInv, TypeOK, ReqTyped
  <2>6. LockInv'
    BY <1>2, <1>3, <2>3, TransducerAssumption DEF LockInv, Acking
  <2>7. HeldInv'
    <3> SUFFICES ASSUME NEW q \in Request, req'[q].t \in Sensor
                 PROVE  /\ req'[q].pc \in {"open", "wait"} => HeldFor(q)'
                        /\ req'[q].pc = "write" /\ req'[q].running => req'[q].held \/ req'[q].blind
      BY DEF HeldInv
    <3>1. req[q].t \in Sensor /\ req[q].t \in Transducer
      BY <2>4 DEF Transducer
    <3>2. CASE rules[req[q].t] = req[q].enable
      BY <2>4, <3>1, <3>2 DEF IInv, HeldInv, HeldFor
    <3>3. CASE rules[req[q].t] # req[q].enable
      BY <1>3, <2>2, <2>3, <2>4, <3>1, <3>3 DEF IInv, HeldInv, HeldFor
    <3> QED
      BY <3>2, <3>3
  <2> QED
    BY <2>5, <2>6, <2>7 DEF IInv
<1> QED
  BY <1>2, <1>4, <1>5

LEMMA ProcessUpdateStep == ASSUME IInv, ProcessUpdate PROVE IInv'
<1> DEFINE rules == heartbeat.rules
<1>1. NoRules \in Rules /\ rules \in Rules
  BY DEF NoRules, Rules, IInv, TypeOK
<1>2. /\ heartbeat.pc = "ack" /\ heartbeat' = Resting /\ lock' = None
      /\ acks' = Merge(acks, rules) /\ Deliver(rules, Heartbeat, FALSE)
      /\ UNCHANGED <<state, commands, on, feed, listener, conn, dead, up, filter, faults, bypassed>>
  BY DEF ProcessUpdate, filterVars
<1>3. /\ lock = "heartbeat" /\ conn = "none" /\ ~(listener # None /\ listener.t \in Sensor)
      /\ \A t \in Sensor : filter[t] # None => filter[t] = rules[t]
  BY <1>2 DEF IInv, LockInv
<1> HIDE DEF rules
<1>4. /\ acks' \in Rules
      /\ \A t \in Transducer : acks'[t] = IF rules[t] = None THEN acks[t] ELSE rules[t]
  BY <1>1, <1>2, MergeFacts DEF IInv, TypeOK
<1>5. /\ req' \in [Request -> Call]
      /\ \A q \in Request :
            \/ req'[q] = req[q]
            \/ req'[q] = Blank("ended")
            \/ req[q].pc = "wait" /\ rules[req[q].t] = req[q].enable /\ Told(q, FALSE)
  BY <1>1, <1>2, DeliverFacts DEF IInv
<1>6. TypeOK' /\ ReqTyped'
  <2>1. ReqTyped'
    BY <1>5, BlankFacts DEF IInv, ReqTyped, Told
  <2> QED
    BY <1>1, <1>2, <1>4, <1>5, <2>1 DEF IInv, TypeOK, Resting
<1>7. LockInv'
  <2>1. \A t \in Sensor : Agree(t)'
    BY <1>2, <1>3, <1>4 DEF Agree, Transducer
  <2> QED
    BY <1>2, <1>3, <2>1, TransducerAssumption DEF LockInv, Acking, Resting
<1>8. HeldInv'
  <2> SUFFICES ASSUME NEW q \in Request, req'[q].t \in Sensor
               PROVE  /\ req'[q].pc \in {"open", "wait"} => HeldFor(q)'
                      /\ req'[q].pc = "write" /\ req'[q].running => req'[q].held \/ req'[q].blind
    BY DEF HeldInv
  <2>1. CASE req'[q] = req[q]
    BY <1>2, <2>1 DEF IInv, HeldInv, HeldFor, Resting
  <2>2. CASE req'[q] = Blank("ended")
    BY <2>2, BlankFacts, TransducerAssumption DEF Transducer
  <2>3. CASE req[q].pc = "wait" /\ rules[req[q].t] = req[q].enable /\ Told(q, FALSE)
    <3>1. req[q] \in Call /\ req[q].t \in Sensor
      BY <2>3 DEF IInv, TypeOK, Call, Told
    <3>2. req[q].held
      BY <1>2, <2>3, <3>1 DEF IInv, HeldInv, HeldFor, rules
    <3> QED
      BY <2>3, <3>1, <3>2 DEF Told
  <2> QED
    BY <1>5, <2>1, <2>2, <2>3
<1> QED
  BY <1>6, <1>7, <1>8 DEF IInv

LEMMA FaultStep ==
    ASSUME IInv, FilterFails \/ FilterStarts \/ VirtueStarts \/ VirtueStops
    PROVE  IInv'
<1>1. NoRules \in Rules /\ \A t \in Sensor : NoRules[t] = None
  BY DEF NoRules, Rules, Transducer
<1>2. /\ UNCHANGED <<req, commands, acks, bypassed>>
      /\ filter' = filter \/ filter' = NoRules
      /\ \/ UNCHANGED <<lock, listener, heartbeat, feed, conn, dead>>
         \/ /\ UNCHANGED <<lock, listener, heartbeat, feed, dead>> /\ filter' = NoRules
            /\ conn = "sent" /\ conn' \in {"broken", "eof"}
         \/ /\ lock' = None /\ listener' = None /\ heartbeat' = Resting /\ feed' = <<>>
            /\ conn' = "none" /\ dead' = {} /\ filter' = NoRules
  BY DEF FilterFails, FilterStarts, VirtueStarts, VirtueStops, excalibur, merlin, filterVars
<1>3. /\ state' \in {"RUNNING", "STOPPED"} /\ on' \in BOOLEAN /\ up' \in BOOLEAN
      /\ faults' \in 0..MaxFaults
  <2>1. /\ state' = state \/ state' \in {"RUNNING", "STOPPED"}
        /\ on' = on \/ on' = TRUE \/ on' = FALSE
        /\ up' = up \/ up' = TRUE \/ up' = FALSE
        /\ faults' = faults \/ (faults < MaxFaults /\ faults' = faults + 1)
    BY DEF FilterFails, FilterStarts, VirtueStarts, VirtueStops, merlin, filterVars, excalibur
  <2>2. state' \in {"RUNNING", "STOPPED"}
    BY <2>1 DEF IInv, TypeOK
  <2>3. on' \in BOOLEAN /\ up' \in BOOLEAN
    <3>1. on \in BOOLEAN /\ up \in BOOLEAN
      BY DEF IInv, TypeOK
    <3> QED
      BY <2>1, <3>1, Zenon
  <2>4. faults' \in 0..MaxFaults
    <3>1. faults \in 0..MaxFaults /\ MaxFaults \in Nat
      BY TransducerAssumption DEF IInv, TypeOK, TransducerAssumption
    <3>2. faults' = faults \/ (faults < MaxFaults /\ faults' = faults + 1)
      BY <2>1
    <3> QED
      BY <3>1, <3>2
  <2> QED
    BY <2>2, <2>3, <2>4
<1>4. TypeOK' /\ ReqTyped'
  <2>1. ReqTyped' /\ req' \in [Request -> Call] /\ bypassed' \in BOOLEAN
        /\ commands' \in Rules /\ acks' \in Rules
    BY <1>2 DEF IInv, TypeOK, ReqTyped
  <2>2. filter' \in Rules
    BY <1>1, <1>2 DEF IInv, TypeOK
  <2>3. /\ lock' \in {"listener", "heartbeat", None} /\ listener' \in Command \cup {None}
        /\ feed' \in Seq(Command)
    <3>1. lock' = lock \/ lock' = None
      BY <1>2
    <3>2. listener' = listener \/ listener' = None
      BY <1>2
    <3>3. feed' = feed \/ feed' = <<>>
      BY <1>2
    <3>4. <<>> \in Seq(Command)
      BY EmptySeq
    <3>5. /\ lock \in {"listener", "heartbeat", None}
          /\ listener \in Command \cup {None}
          /\ feed \in Seq(Command)
      BY DEF IInv, TypeOK
    <3> QED
      BY <3>1, <3>2, <3>3, <3>4, <3>5
  <2>4. heartbeat' \in [pc : {"rest", "asked", "commands", "send", "reminded", "ack"}, rules : Rules]
    BY <1>1, <1>2 DEF IInv, TypeOK, Resting
  <2>5. conn' \in {"none", "sent", "answered", "broken", "eof"} /\ dead' \subseteq {"listener", "heartbeat"}
    BY <1>2 DEF IInv, TypeOK
  <2> QED
    BY <1>3, <2>1, <2>2, <2>3, <2>4, <2>5 DEF TypeOK
<1>5. LockInv'
  BY <1>1, <1>2, TransducerAssumption DEF IInv, LockInv, Acking, Agree, Resting
<1>6. HeldInv'
  <2> SUFFICES ASSUME NEW q \in Request, req[q].t \in Sensor, req[q].pc \in {"open", "wait"}
               PROVE  HeldFor(q)'
    BY <1>2 DEF HeldInv, IInv
  <2>1. req[q].enable # None
    BY TransducerAssumption DEF IInv, TypeOK, Call
  <2> QED
    BY <1>1, <1>2, <2>1 DEF IInv, HeldInv, HeldFor, Resting
<1> QED
  BY <1>4, <1>5, <1>6 DEF IInv

LEMMA IStep == IInv /\ [Next]_vars => IInv'
<1> SUFFICES ASSUME IInv, [Next]_vars PROVE IInv'
  OBVIOUS
<1>1. CASE \E q \in Request :
              Start(q) \/ Insert(q) \/ OpenFeed(q) \/ TimeOut(q) \/ WriteEntry(q)
  BY <1>1, StartStep, InsertStep, EndStep
<1>2. CASE Listener \/ ListenerRaises
  BY <1>2, TakeStep, SendAckStep, GiveUpStep DEF Listener
<1>3. CASE Beat \/ GoOn
  BY <1>3, BeatStep, ProcessUpdateStep DEF GoOn
<1>4. CASE FilterAnswers \/ FilterFails \/ FilterStarts \/ VirtueStarts \/ VirtueStops
  BY <1>4, FaultStep, AnswerListenerStep, AnswerHeartbeatStep DEF FilterAnswers
<1>5. CASE UNCHANGED vars
  BY <1>5 DEF vars, IInv, TypeOK, ReqTyped, LockInv, Acking, Agree, HeldInv, HeldFor
<1> QED
  BY <1>1, <1>2, <1>3, <1>4, <1>5 DEF Next

\* Every variable keeps its type (apiendpoint_security.py, merlin.py).
THEOREM TypeCorrectness == Spec => []TypeOK
<1>1. IInv => TypeOK
  BY DEF IInv
<1> QED
  BY IInit, IStep, <1>1, PTL DEF Spec

\* Between two uses of the filter the acks are of the filter's rules, however
\* the two threads of Merlin take turns (merlin.py 245-324, 631-658).
THEOREM AcksAgreeAlways == Spec => []AcksAgree
<1>1. IInv => AcksAgree
  BY TransducerAssumption DEF IInv, LockInv, Acking, Agree, AcksAgree
<1> QED
  BY IInit, IStep, <1>1, PTL DEF Spec

\* A request that succeeds was not answered by the ack of another command: the
\* filter held its rule, or died before it answered the one whose ack it was
\* (apiendpoint_security.py 442-505, merlin.py 645-656).
THEOREM SuccessWasHeldAlways == Spec => []SuccessWasHeld
<1>1. IInv => SuccessWasHeld
  BY DEF IInv, HeldInv, SuccessWasHeld
<1> QED
  BY IInit, IStep, <1>1, PTL DEF Spec
=============================================================================
