--------------------------- MODULE TransducerControl ---------------------------
(***************************************************************************)
(* The control of one virtue's transducers, from the security API of       *)
(* Excalibur (apiendpoint_security.py) to the filter in the virtue.        *)
(*                                                                         *)
(* Excalibur writes a command to RethinkDB and waits for an ack.  In the   *)
(* virtue, Merlin (merlin.py) has two threads: one takes the commands from *)
(* a change feed, the other asks the filter for its rules now and then and *)
(* acknowledges them.  Both talk to the filter, a thread of syslog-ng      *)
(* (transducer-controller.c), one at a time under a lock: a connection is  *)
(* made, a request sent, and the answer read up to the end of the          *)
(* connection, which also ends when the filter dies.  A filter that        *)
(* restarts has no rules; the heartbeat then sends it all commands again.  *)
(* An exception ends a thread of Merlin but not the process, and nothing   *)
(* starts the thread again while the virtue runs.                          *)
(*                                                                         *)
(* Timestamps are in seconds and come from two machines; what matters is   *)
(* only that an ack may be older than the command that is waited for, and  *)
(* that the ack of the command itself never is.  Signatures are taken as   *)
(* good; connections to RethinkDB as up, so that acks get into its table.  *)
(***************************************************************************)
EXTENDS Integers, Sequences, FiniteSets

CONSTANTS
    Request,    \* calls of transducer_enable and transducer_disable
    Sensor,     \* transducers the filter lets through or not
    Actuator,   \* transducers Merlin carries out itself
    Asks,       \* the transducers that each of the calls may be for
    Heartbeat,  \* what an ack names that answers no request
    None,
    MaxFaults   \* bound: failures of the filter and of the listener, stops of the virtue

Transducer == Sensor \cup Actuator
Rules == [Transducer -> BOOLEAN \cup {None}]
Command == [t : Transducer, enabled : BOOLEAN, by : Request]

ASSUME TransducerAssumption ==
    /\ Sensor \cap Actuator = {}
    /\ None \notin BOOLEAN /\ None \notin Transducer /\ None \notin Command
    /\ None \notin {"listener", "heartbeat"}
    /\ Asks \in [Request -> SUBSET Transducer]
    /\ Heartbeat \notin Request
    /\ MaxFaults \in Nat

VARIABLES
    req,       \* the requests
    state,     \* the virtue's state in its LDAP entry
    commands,  \* table commands: transducer -> whether it is to be enabled, or None
    acks,      \* table acks: transducer -> whether it is enabled, or None
    on,        \* the virtue runs, and Merlin in it
    feed,      \* changes of commands that Merlin's feed has not handed out
    lock,      \* "listener", "heartbeat" or None
    listener,  \* the command the listener is carrying out, or None
    heartbeat, \* the heartbeat: its step and the rules it has read
    conn,      \* the connection to the filter of the thread that has the lock
    dead,      \* the threads of Merlin that an exception has ended
    up,        \* the filter answers
    filter,    \* the filter's rules: transducer -> BOOLEAN, or None
    faults,    \* the failures that MaxFaults bounds, so far
    bypassed   \* a restarted filter got a new command before the old ones

excalibur == <<req, state, commands>>
merlin == <<on, feed, lock, listener, heartbeat, conn, dead>>
filterVars == <<up, filter>>
vars == <<req, state, commands, acks, on, feed, lock, listener, heartbeat, conn, dead,
          up, filter, faults, bypassed>>

NoRules == [t \in Transducer |-> None]
Resting == [pc |-> "rest", rules |-> NoRules]
Known(rules) == {t \in Transducer : rules[t] # None}
Merge(old, new) == [t \in Transducer |-> IF new[t] = None THEN old[t] ELSE new[t]]

\* A request before it starts and after it ends: t and enable are its arguments,
\* running what it read in the entry, held whether the filter had the rule it
\* wants, and blind whether its ack was sent for an answer that never came.
Blank(pc) ==
    [pc |-> pc, t |-> None, enable |-> FALSE, running |-> FALSE, held |-> FALSE, blind |-> FALSE]

\* Virtues start out stopped, without transducers or commands.
Init ==
    /\ req = [q \in Request |-> Blank("idle")]
    /\ state = "STOPPED"
    /\ commands = NoRules /\ acks = NoRules
    /\ on = FALSE /\ feed = <<>> /\ lock = None /\ listener = None /\ heartbeat = Resting
    /\ conn = "none" /\ dead = {}
    /\ up = FALSE /\ filter = NoRules /\ faults = 0
    /\ bypassed = FALSE

(***************************************************************************)
(* Excalibur                                                               *)
(***************************************************************************)

\* What the filter has just told Merlin of t, and Merlin is about to pass on.
UnderWay(t) ==
    {enabled \in BOOLEAN :
        \/ heartbeat.pc = "ack" /\ enabled = heartbeat.rules[t]
        \/ listener # None /\ listener.t = t /\ conn = "answered" /\ enabled = listener.enabled}

\* The transducer and the virtue are looked up; the entry that was read is
\* written back at the end.
Start(q) ==
    /\ req[q].pc = "idle"
    /\ \E t \in Asks[q], enable \in BOOLEAN :
          req' = [req EXCEPT ![q] = [@ EXCEPT !.pc = "insert", !.t = t, !.enable = enable,
                                              !.running = (state = "RUNNING")]]
    /\ UNCHANGED <<state, commands, acks, merlin, filterVars, faults, bypassed>>

\* The command replaces an earlier one.  A stopped virtue is not waited for.
Insert(q) ==
    LET t == req[q].t
        row == [t |-> t, enabled |-> req[q].enable, by |-> q]
    IN  /\ req[q].pc = "insert"
        /\ commands' = [commands EXCEPT ![t] = row.enabled]
        /\ feed' = IF on THEN Append(feed, row) ELSE feed
        /\ req' = [req EXCEPT ![q].pc = IF req[q].running THEN "open" ELSE "write",
                              ![q].held = (row.enabled \in {filter[t]} \cup UnderWay(t))]
        /\ UNCHANGED <<state, acks, on, lock, listener, heartbeat, conn, dead, filterVars,
                       faults, bypassed>>

\* Acks that were written before are not in the feed.
OpenFeed(q) ==
    /\ req[q].pc = "open"
    /\ req' = [req EXCEPT ![q].pc = "wait"]
    /\ UNCHANGED <<state, commands, acks, merlin, filterVars, faults, bypassed>>

TimeOut(q) ==
    /\ req[q].pc = "wait"
    /\ req' = [req EXCEPT ![q] = Blank("ended")]
    /\ UNCHANGED <<state, commands, acks, merlin, filterVars, faults, bypassed>>

\* What transducer_list_enabled lists goes into the entry and no further; the
\* entry is written whole, with the state it had at the start, if LDAP takes it.
WriteEntry(q) ==
    /\ req[q].pc = "write"
    /\ state' \in {state, IF req[q].running THEN "RUNNING" ELSE "STOPPED"}
    /\ req' = [req EXCEPT ![q] = Blank("ended")]
    /\ UNCHANGED <<commands, acks, merlin, filterVars, faults, bypassed>>

(***************************************************************************)
(* Merlin                                                                  *)
(***************************************************************************)

\* Mutant of Succeeds: the value in the ack is not looked at.
SucceedsAlways(q, enabled) == TRUE

\* The ack a request has been given is the one it waits for.
Succeeds(q, enabled) == enabled = req[q].enable

\* Acks of the rules reach the requests that wait for them, and each looks at
\* the first one only: after an ack that is too old the loop goes on with a
\* cursor that the finally clause has closed, and fails.
Deliver(rules, by, blind) ==
    LET reached == {q \in Request : req[q].pc = "wait" /\ rules[req[q].t] # None}
    IN  \E old \in SUBSET (reached \ {by}) :
            req' = [q \in Request |->
                        IF q \notin reached THEN req[q]
                        ELSE IF q \notin old /\ Succeeds(q, rules[req[q].t])
                             THEN [req[q] EXCEPT !.pc = "write", !.blind = blind]
                             ELSE Blank("ended")]

\* The requests whose rule the filter is given are told so.
Held(rules) ==
    [q \in Request |-> IF req[q].pc \in {"open", "wait"} /\ rules[req[q].t] = req[q].enable
                       THEN [req[q] EXCEPT !.held = TRUE] ELSE req[q]]

\* The filter lacks commands that Merlin's feed has handed out or never will.
Owed(t) ==
    {s \in Sensor \ {t} : /\ commands[s] # None /\ filter[s] = None
                          /\ \A i \in 1..Len(feed) : feed[i].t # s}

\* The listener waits for a command, and the feed has one.
Takes == on /\ "listener" \notin dead /\ listener = None /\ feed # <<>>

\* The listener sends the filter a command, under the lock; a command is lost
\* when the filter is not there.
TakeSensor ==
    /\ Takes /\ Head(feed).t \in Sensor /\ lock = None
    /\ feed' = Tail(feed)
    /\ IF up
       THEN listener' = Head(feed) /\ lock' = "listener" /\ conn' = "sent"
       ELSE UNCHANGED <<listener, lock, conn>>
    /\ UNCHANGED <<excalibur, acks, on, heartbeat, dead, filterVars, faults, bypassed>>

\* do_actuator needs neither the lock nor the filter; when it fails there is no ack.
TakeActuator ==
    /\ Takes /\ Head(feed).t \in Actuator
    /\ feed' = Tail(feed)
    /\ listener' \in {None, Head(feed)}
    /\ UNCHANGED <<excalibur, acks, on, lock, heartbeat, conn, dead, filterVars, faults, bypassed>>

\* Nothing catches what an actuator's device or configuration raises, nor what
\* the file of the OS sensor does: the listener ends with that command.
ListenerRaises ==
    /\ Takes /\ faults < MaxFaults
    /\ faults' = faults + 1
    /\ feed' = Tail(feed)
    /\ dead' = dead \cup {"listener"}
    /\ UNCHANGED <<excalibur, acks, on, lock, listener, heartbeat, conn, filterVars, bypassed>>

\* send_ack, with or without success; the lock is given back.  Any answer of the
\* filter will do, the empty one of a filter that died included.
SendAck ==
    LET rules == [NoRules EXCEPT ![listener.t] = listener.enabled]
        sensor == listener.t \in Sensor
    IN  /\ on /\ listener # None
        /\ sensor => conn \in {"answered", "eof"}
        /\ listener' = None
        /\ lock' = IF sensor THEN None ELSE lock
        /\ conn' = IF sensor THEN "none" ELSE conn
        /\ acks' = Merge(acks, rules)
        /\ Deliver(rules, listener.by, sensor /\ conn = "eof")
        /\ UNCHANGED <<state, commands, on, feed, heartbeat, dead, filterVars, faults, bypassed>>

\* The connection failed: the command is lost.
ListenerGivesUp ==
    /\ on /\ lock = "listener" /\ conn = "broken"
    /\ listener' = None /\ lock' = None /\ conn' = "none"
    /\ UNCHANGED <<excalibur, acks, on, feed, heartbeat, dead, filterVars, faults, bypassed>>

\* Mutant of Beat: the lock is not waited for.
BeatUnlocked ==
    /\ on /\ "heartbeat" \notin dead /\ heartbeat.pc = "rest" /\ up
    /\ heartbeat' = [pc |-> IF Known(filter) = {} THEN "commands" ELSE "ack", rules |-> filter]
    /\ lock' = IF lock = None THEN "heartbeat" ELSE lock
    /\ UNCHANGED <<excalibur, acks, on, feed, listener, conn, dead, filterVars, faults, bypassed>>

\* do_heartbeat asks the filter for its rules.
Beat ==
    /\ on /\ "heartbeat" \notin dead /\ heartbeat.pc = "rest" /\ up /\ lock = None
    /\ heartbeat' = [heartbeat EXCEPT !.pc = "asked"]
    /\ lock' = "heartbeat" /\ conn' = "sent"
    /\ UNCHANGED <<excalibur, acks, on, feed, listener, dead, filterVars, faults, bypassed>>

\* Mutant of ReadCommands: commands to disable a transducer are left out.
ReadEnabledCommands ==
    LET enabled == {t \in Known(commands) : commands[t]}
    IN  /\ on /\ heartbeat.pc = "commands"
        /\ IF enabled = {}
           THEN heartbeat' = Resting /\ lock' = None
           ELSE /\ heartbeat' = [pc |-> "send",
                                 rules |-> [t \in Transducer |-> IF t \in enabled THEN TRUE ELSE None]]
                /\ UNCHANGED lock
        /\ UNCHANGED <<excalibur, acks, on, feed, listener, conn, dead, filterVars, faults, bypassed>>

\* repopulate_ruleset: the commands of all transducers, actuators too.
ReadCommands ==
    /\ on /\ heartbeat.pc = "commands"
    /\ IF Known(commands) = {}
       THEN heartbeat' = Resting /\ lock' = None
       ELSE /\ heartbeat' = [pc |-> "send",
                             rules |-> commands]
            /\ UNCHANGED lock
    /\ UNCHANGED <<excalibur, acks, on, feed, listener, conn, dead, filterVars, faults, bypassed>>

\* It sends them to the filter.
Repopulate ==
    /\ on /\ heartbeat.pc = "send"
    /\ IF up
       THEN heartbeat' = [heartbeat EXCEPT !.pc = "reminded"] /\ conn' = "sent" /\ UNCHANGED lock
       ELSE heartbeat' = Resting /\ lock' = None /\ UNCHANGED conn
    /\ UNCHANGED <<excalibur, acks, on, feed, listener, dead, filterVars, faults, bypassed>>

\* The connection failed: the heartbeat rests until the next one.
HeartbeatGivesUp ==
    /\ on /\ lock = "heartbeat" /\ conn = "broken"
    /\ heartbeat' = Resting /\ lock' = None /\ conn' = "none"
    /\ UNCHANGED <<excalibur, acks, on, feed, listener, dead, filterVars, faults, bypassed>>

\* An empty answer is no JSON: json.loads raises, and the thread ends.
HeartbeatRaises ==
    /\ on /\ lock = "heartbeat" /\ conn = "eof"
    /\ heartbeat' = Resting /\ lock' = None /\ conn' = "none"
    /\ dead' = dead \cup {"heartbeat"}
    /\ UNCHANGED <<excalibur, acks, on, feed, listener, filterVars, faults, bypassed>>

\* process_update acknowledges every rule of the filter.
ProcessUpdate ==
    /\ on /\ heartbeat.pc = "ack"
    /\ heartbeat' = Resting /\ lock' = None
    /\ acks' = Merge(acks, heartbeat.rules)
    /\ Deliver(heartbeat.rules, Heartbeat, FALSE)
    /\ UNCHANGED <<state, commands, on, feed, listener, conn, dead, filterVars, faults, bypassed>>

(***************************************************************************)
(* The filter and the virtue                                               *)
(***************************************************************************)

\* The filter reads a request, changes its rules if they are told to change, and
\* answers with all of them.  The answer is then in the socket, out of reach of
\* any failure: for the heartbeat it is as good as read.
AnswerListener ==
    LET rules == [NoRules EXCEPT ![listener.t] = listener.enabled]
    IN  /\ lock = "listener"
        /\ filter' = Merge(filter, rules)
        /\ req' = Held(rules)
        /\ bypassed' = (bypassed \/ Owed(listener.t) # {})
        /\ conn' = "answered"
        /\ UNCHANGED heartbeat

AnswerHeartbeat ==
    /\ lock = "heartbeat"
    /\ \/ /\ heartbeat.pc = "asked"
          /\ heartbeat' = [pc |-> IF Known(filter) = {} THEN "commands" ELSE "ack", rules |-> filter]
          /\ UNCHANGED <<filter, req>>
       \/ /\ heartbeat.pc = "reminded"
          /\ filter' = Merge(filter, heartbeat.rules)
          /\ heartbeat' = [pc |-> "ack", rules |-> filter']
          /\ req' = Held(heartbeat.rules)
    /\ conn' = "none"
    /\ UNCHANGED bypassed

FilterAnswers ==
    /\ on /\ up /\ conn = "sent"
    /\ AnswerListener \/ AnswerHeartbeat
    /\ UNCHANGED <<state, commands, acks, on, feed, lock, listener, dead, up, faults>>

\* A connection whose request the filter had not read is reset, one whose request
\* it had read just ends.
FilterFails ==
    /\ on /\ up /\ faults < MaxFaults
    /\ faults' = faults + 1
    /\ up' = FALSE /\ filter' = NoRules
    /\ conn' \in IF conn = "sent" THEN {"broken", "eof"} ELSE {conn}
    /\ UNCHANGED <<excalibur, acks, on, feed, lock, listener, heartbeat, dead, bypassed>>

\* syslog-ng.service: Restart=on-failure.
FilterStarts ==
    /\ on /\ ~up
    /\ up' = TRUE
    /\ UNCHANGED <<excalibur, acks, merlin, filter, faults, bypassed>>

\* virtue_launch and virtue_stop, of which only the ends matter here, and
\* virtue_reload_state before them where the state is not what it should be.
VirtueStarts ==
    /\ ~on
    /\ on' = TRUE
    /\ state' = "RUNNING"
    /\ UNCHANGED <<req, commands, acks, feed, lock, listener, heartbeat, conn, dead,
                   filterVars, faults, bypassed>>

VirtueStops ==
    /\ on /\ faults < MaxFaults
    /\ faults' = faults + 1
    /\ on' = FALSE /\ feed' = <<>> /\ lock' = None /\ listener' = None /\ heartbeat' = Resting
    /\ conn' = "none" /\ dead' = {}
    /\ up' = FALSE /\ filter' = NoRules
    /\ state' = "STOPPED"
    /\ UNCHANGED <<req, commands, acks, bypassed>>

Listener == TakeSensor \/ TakeActuator \/ SendAck \/ ListenerGivesUp
GoOn == ReadCommands \/ Repopulate \/ ProcessUpdate \/ HeartbeatGivesUp \/ HeartbeatRaises

Next ==
    \/ \E q \in Request :
          Start(q) \/ Insert(q) \/ OpenFeed(q) \/ TimeOut(q) \/ WriteEntry(q)
    \/ Listener \/ ListenerRaises
    \/ Beat \/ GoOn
    \/ FilterAnswers \/ FilterFails \/ FilterStarts \/ VirtueStarts \/ VirtueStops

Spec == Init /\ [][Next]_vars

\* systemd starts the filter again, and it answers; a thread of Merlin goes on,
\* and gets the lock in the end: the heartbeat waits for its interval without it.
FairSpec ==
    /\ Spec
    /\ SF_vars(Listener)
    /\ SF_vars(Beat)
    /\ WF_vars(GoOn)
    /\ WF_vars(FilterAnswers)
    /\ WF_vars(FilterStarts)

(***************************************************************************)
(* Properties                                                              *)
(***************************************************************************)

Call == [pc : {"idle", "insert", "open", "wait", "write", "ended"},
         t : Transducer \cup {None}, enable : BOOLEAN, running : BOOLEAN, held : BOOLEAN,
         blind : BOOLEAN]

\* Type invariant.
TypeOK ==
    /\ req \in [Request -> Call]
    /\ state \in {"RUNNING", "STOPPED"}
    /\ commands \in Rules /\ acks \in Rules /\ filter \in Rules
    /\ on \in BOOLEAN /\ up \in BOOLEAN /\ bypassed \in BOOLEAN
    /\ feed \in Seq(Command)
    /\ lock \in {"listener", "heartbeat", None}
    /\ listener \in Command \cup {None}
    /\ heartbeat \in [pc : {"rest", "asked", "commands", "send", "reminded", "ack"}, rules : Rules]
    /\ conn \in {"none", "sent", "answered", "broken", "eof"}
    /\ dead \subseteq {"listener", "heartbeat"}
    /\ faults \in 0..MaxFaults

\* Between two uses of the filter the table of acks says what the filter does,
\* although two threads change it and requests come in between.
AcksAgree ==
    lock = None =>
        \A t \in Sensor :
            filter[t] # None /\ acks[t] # None => acks[t] = filter[t]

\* A request for a running virtue that succeeds was not answered by mistake: the
\* filter had that rule, or was just found to have it, after the command was
\* written, or it died between reading the command and answering.
SuccessWasHeld ==
    \A q \in Request :
        req[q].pc = "write" /\ req[q].running /\ req[q].t \in Sensor
            => req[q].held \/ req[q].blind

\* What send_ack's comment has it mean, "Confirm to excalibur that changes were
\* successful" (merlin.py 502).  It does not hold: the listener acknowledges any
\* reply but None, and a filter that dies before it answers leaves an empty one.
AckConfirmsChange ==
    \A q \in Request :
        req[q].pc = "write" /\ req[q].running /\ req[q].t \in Sensor => req[q].held

\* The filter of a running virtue does not follow the last command for t,
\* although Merlin's threads are both alive.
Pending(t) ==
    on /\ dead = {} /\ ~ bypassed /\ commands[t] # None /\ filter[t] # commands[t]

\* In a virtue that keeps running the last command for a sensor takes effect,
\* whatever requests time out and filters restart, save when an exception has
\* ended a thread of Merlin or a restarted filter was given a new command before
\* the heartbeat came by.
CommandTakesEffect == \A t \in Sensor : Pending(t) ~> ~ Pending(t)

Lost(t) == on /\ up /\ commands[t] # None /\ filter[t] = None

\* The comments in merlin.py: "If the filter restarted and lost its ruleset,
\* repopulate it" (317), from the commands, "so that comands can be queued up by
\* the system before Virtues are started" (189).  A filter that is up ends up
\* with a rule for every sensor that has a command.  do_heartbeat repopulates
\* only an empty ruleset: a new command that comes first hides that the others
\* are missing.
RulesetRepopulated == \A t \in Sensor : Lost(t) ~> ~Lost(t)

\* LDAP has a virtue as running only if it runs.
StateIsKept == state = "RUNNING" => on
=============================================================================
