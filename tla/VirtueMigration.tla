---------------------------- MODULE VirtueMigration ----------------------------
(***************************************************************************)
(* Live migration of virtues between valors.                               *)
(*                                                                         *)
(* A migration is not a call but a record: the API server writes the       *)
(* destination into the virtue's migration command in RethinkDB, and the   *)
(* migration thread of the Gaius service on the valor the command names    *)
(* reads it from a changefeed, moves the Xen domain, and only then writes  *)
(* where the virtue is, first into the command and then into the virtue's  *)
(* row of the galahad table.  Meanwhile virtues are stopped and launched,  *)
(* and a second Gaius thread creates and destroys domains as rows come and *)
(* go.  A command stays in the table when its virtue is stopped.           *)
(*                                                                         *)
(* All valors are running and stay so (ValorFleet); addresses, LDAP and    *)
(* the placement of launches are in VirtueLifecycle.                       *)
(***************************************************************************)
EXTENDS Naturals, Sequences, FiniteSets

CONSTANTS
    Request,            \* threads of the API server that can serve a request
    Virtue,             \* virtue identifiers
    Valor,              \* the running valors, and the addresses they have
    MaxVirtuesPerValor, \* MAX_VIRTUES_PER_VALOR
    None,
    \* Bounds of the model, not of the code:
    MaxLaunches,        \* launches in a behaviour
    MaxMigrations,      \* migrations requested in a behaviour
    MaxFailures         \* xl commands that fail in a behaviour

ASSUME MigrationAssumption ==
    /\ IsFiniteSet(Virtue)
    /\ MaxVirtuesPerValor \in Nat \ {0}
    /\ MaxLaunches \in Nat /\ MaxMigrations \in Nat /\ MaxFailures \in Nat
    /\ None \notin Virtue \cup Valor

VARIABLES
    row,      \* Virtue -> the primary key of its galahad row and its valor
    command,  \* Virtue -> its migration record in the commands table
    rowFeed,  \* Valor -> added and removed rows its valor thread has to handle
    cmdFeed,  \* Valor -> enabled commands its migration thread has to handle
    mover,    \* Valor -> the local variables of its migration thread
    domU,     \* the <<valor, virtue>> pairs of the domains that run
    req,      \* Request -> the local variables of its handler
    calm,     \* history: the virtues whose operations have not overlapped and
              \* whose xl commands have not failed
    launches, migrations, failures  \* counters that only bound the model

vars == <<row, command, rowFeed, cmdFeed, mover, domU, req, calm, launches, migrations, failures>>

NoRow == [id |-> 0, valor |-> None]
Row == [id : 1 .. MaxLaunches, valor : Valor] \cup {NoRow}

Command == [valor_ip : Valor \cup {None}, valor_dest : Valor \cup {None}, enabled : BOOLEAN]

RowChange == [type : {"add", "remove"}, virtue : Virtue]

\* new_val of a command, as far as migrate() reads it.
Order == [virtue : Virtue, valor_dest : Valor \cup {None}]

Mover == [pc : {"idle", "transfer", "command", "row", "dead"},
          virtue : Virtue \cup {None}, valor_dest : Valor \cup {None}]

Handler == [pc : {"idle", "read", "count", "update", "find", "place", "delete"},
            virtue : Virtue \cup {None},
            source : Valor \cup {None}, dest : Valor \cup {None},
            enabled : BOOLEAN, matched : Row]

NoMove == [pc |-> "idle", virtue |-> None, valor_dest |-> None]
Idle == [pc |-> "idle", virtue |-> None, source |-> None, dest |-> None,
         enabled |-> FALSE, matched |-> NoRow]

Init ==
    /\ row = [v \in Virtue |-> NoRow]
    /\ command = [v \in Virtue |-> [valor_ip |-> None, valor_dest |-> None, enabled |-> FALSE]]
    /\ rowFeed = [a \in Valor |-> << >>]
    /\ cmdFeed = [a \in Valor |-> << >>]
    /\ mover = [a \in Valor |-> NoMove]
    /\ domU = {}
    /\ req = [q \in Request |-> Idle]
    /\ calm = Virtue
    /\ launches = 0 /\ migrations = 0 /\ failures = 0

bounds == <<launches, migrations, failures>>

At(q, pc) == req[q].pc = pc
Goto(q, pc) == req' = [req EXCEPT ![q].pc = pc]
End(q) == req' = [req EXCEPT ![q] = Idle]

VirtuesOn(a) == {v \in Virtue : row[v].valor = a}

Elements(s) == {s[i] : i \in DOMAIN s}

\* An operation on the virtue has begun and its last effect is still to come.
Requested(v) == \E q \in Request : req[q].virtue = v
Moving(v) ==
    \E a \in Valor :
        \/ mover[a].pc # "dead" /\ mover[a].virtue = v
        \/ \E o \in Elements(cmdFeed[a]) : o.virtue = v
RowPending(v) == \E a \in Valor : \E c \in Elements(rowFeed[a]) : c.virtue = v
Busy(v) == Requested(v) \/ Moving(v) \/ RowPending(v)

Overlap(v) == calm' = IF Busy(v) THEN calm \ {v} ELSE calm

\* The galahad feed reaches the valor thread of the address in the row.
PublishRow(type, v, a) ==
    rowFeed' = [rowFeed EXCEPT ![a] = Append(@, [type |-> type, virtue |-> v])]

\* Write a command.  The feed of a valor is a query on valor_ip, so a record
\* that comes under it or leaves it is an "add" or a "remove", which the
\* migration thread ignores: it acts on a "change" whose new value is enabled.
\* A write that changes nothing is not published, nor is one to a dead thread.
SetCommand(v, c) ==
    LET a == c.valor_ip
        heard == c # command[v] /\ a = command[v].valor_ip /\ c.enabled /\ mover[a].pc # "dead"
    IN  /\ command' = [command EXCEPT ![v] = c]
        /\ cmdFeed' = IF heard
                      THEN [cmdFeed EXCEPT ![a] = Append(@, [virtue |-> v, valor_dest |-> c.valor_dest])]
                      ELSE cmdFeed

(***************************************************************************)
(* valor_migrate_virtue and ValorManager.migrate_virtue                    *)
(***************************************************************************)

\* Find the virtue's valor and take another one for the destination: the one
\* that was named, or a random available one.
Migrate(q, v, d) ==
    /\ At(q, "idle")
    /\ row[v] # NoRow /\ d # row[v].valor
    /\ migrations < MaxMigrations
    /\ migrations' = migrations + 1
    /\ req' = [req EXCEPT ![q] = [Idle EXCEPT !.pc = "read", !.virtue = v, !.dest = d]]
    /\ Overlap(v)
    /\ UNCHANGED <<row, command, rowFeed, cmdFeed, mover, domU, launches, failures>>

\* Read the row again: without one, or when the virtue has come to be at the
\* destination, an exception ends the request.
ReadSource(q) ==
    /\ At(q, "read")
    /\ LET a == row[req[q].virtue].valor
       IN  IF a \in {None, req[q].dest} THEN End(q)
           ELSE req' = [req EXCEPT ![q].pc = "count", ![q].source = a]
    /\ UNCHANGED <<row, command, rowFeed, cmdFeed, mover, domU, calm, bounds>>

CountVirtues(q) ==
    /\ At(q, "count")
    /\ IF Cardinality(VirtuesOn(req[q].dest)) >= MaxVirtuesPerValor
       THEN End(q) ELSE Goto(q, "update")
    /\ UNCHANGED <<row, command, rowFeed, cmdFeed, mover, domU, calm, bounds>>

\* Mutant of OrderMove: the destination is left out of the update.
OrderMoveNowhere(q) ==
    LET v == req[q].virtue
    IN  /\ At(q, "update")
        /\ IF command[v].valor_ip = req[q].source
           THEN SetCommand(v, [command[v] EXCEPT !.enabled = TRUE])
           ELSE UNCHANGED <<command, cmdFeed>>
        /\ End(q)
        /\ UNCHANGED <<row, rowFeed, mover, domU, calm, bounds>>

\* Update the command if it still names the valor that was read; if not, the
\* filter matches nothing and the request is answered all the same.
OrderMove(q) ==
    LET v == req[q].virtue
    IN  /\ At(q, "update")
        /\ IF command[v].valor_ip = req[q].source
           THEN SetCommand(v, [command[v] EXCEPT !.valor_dest = req[q].dest, !.enabled = TRUE])
           ELSE UNCHANGED <<command, cmdFeed>>
        /\ End(q)
        /\ UNCHANGED <<row, rowFeed, mover, domU, calm, bounds>>

(***************************************************************************)
(* add_virtue and remove_virtue                                            *)
(***************************************************************************)

\* Insert the row, on a valor with room.
Launch(q, v, a) ==
    /\ At(q, "idle")
    /\ row[v] = NoRow
    /\ Cardinality(VirtuesOn(a)) < MaxVirtuesPerValor
    /\ launches < MaxLaunches
    /\ launches' = launches + 1
    /\ row' = [row EXCEPT ![v] = [id |-> launches', valor |-> a]]
    /\ PublishRow("add", v, a)
    /\ req' = [req EXCEPT ![q] = [Idle EXCEPT !.pc = "find", !.virtue = v, !.source = a]]
    /\ Overlap(v)
    /\ UNCHANGED <<command, cmdFeed, mover, domU, migrations, failures>>

\* The command is read whole ...
FindCommand(q) ==
    /\ At(q, "find")
    /\ req' = [req EXCEPT ![q].pc = "place", ![q].enabled = command[req[q].virtue].enabled]
    /\ UNCHANGED <<row, command, rowFeed, cmdFeed, mover, domU, calm, bounds>>

\* Mutant of PlaceCommand: the record keeps the valor of the last launch.
PlaceCommandNowhere(q) ==
    LET v == req[q].virtue
    IN  /\ At(q, "place")
        /\ SetCommand(v, [command[v] EXCEPT !.valor_dest = None, !.enabled = req[q].enabled])
        /\ End(q)
        /\ UNCHANGED <<row, rowFeed, mover, domU, calm, bounds>>

\* ... and written back whole, the enabled flag as it was read.
PlaceCommand(q) ==
    /\ At(q, "place")
    /\ SetCommand(req[q].virtue,
                  [valor_ip |-> req[q].source, valor_dest |-> None, enabled |-> req[q].enabled])
    /\ End(q)
    /\ UNCHANGED <<row, rowFeed, mover, domU, calm, bounds>>

\* Find the row: remove_virtue asserts that there is one.
Stop(q, v) ==
    /\ At(q, "idle")
    /\ row[v] # NoRow
    /\ req' = [req EXCEPT ![q] = [Idle EXCEPT !.pc = "delete", !.virtue = v, !.matched = row[v]]]
    /\ Overlap(v)
    /\ UNCHANGED <<row, command, rowFeed, cmdFeed, mover, domU, bounds>>

\* Delete what matches the whole of the row that was read, nothing if the
\* virtue has been moved since; the feed tells the valor the row names.
DeleteRow(q) ==
    LET v == req[q].virtue
    IN  /\ At(q, "delete")
        /\ IF row[v] = req[q].matched
           THEN row' = [row EXCEPT ![v] = NoRow] /\ PublishRow("remove", v, row[v].valor)
           ELSE UNCHANGED <<row, rowFeed>>
        /\ End(q)
        /\ UNCHANGED <<command, cmdFeed, mover, domU, calm, bounds>>

(***************************************************************************)
(* Gaius: Changes.valor                                                    *)
(***************************************************************************)

\* An xl command fails: the failure is logged, and that is all.
Failure(v) ==
    /\ failures < MaxFailures
    /\ failures' = failures + 1
    /\ calm' = calm \ {v}
    /\ UNCHANGED domU

\* An xl command that finds its domain as it should succeeds, or fails.
Attempt(possible, v, result) ==
    \/ possible /\ domU' = result /\ UNCHANGED <<calm, failures>>
    \/ ~ possible /\ UNCHANGED <<domU, calm, failures>>
    \/ possible /\ Failure(v)

HandleRow(a) ==
    /\ rowFeed[a] # << >>
    /\ LET c == Head(rowFeed[a])
           here == <<a, c.virtue>>
       IN  \/ c.type = "add" /\ Attempt(here \notin domU, c.virtue, domU \cup {here})
           \/ c.type = "remove" /\ Attempt(here \in domU, c.virtue, domU \ {here})
    /\ rowFeed' = [rowFeed EXCEPT ![a] = Tail(@)]
    /\ UNCHANGED <<row, command, cmdFeed, mover, req, launches, migrations>>

(***************************************************************************)
(* Gaius: Changes.migration and migrate                                    *)
(***************************************************************************)

Die(a) ==
    /\ mover' = [mover EXCEPT ![a] = [NoMove EXCEPT !.pc = "dead"]]
    /\ cmdFeed' = [cmdFeed EXCEPT ![a] = << >>]

\* Take a command.  Looking up the row of a virtue that has been stopped since
\* raises, and nothing catches it: the thread ends, the service goes on.
TakeOrder(a) ==
    /\ mover[a].pc = "idle" /\ cmdFeed[a] # << >>
    /\ LET o == Head(cmdFeed[a])
       IN  IF row[o.virtue] = NoRow THEN Die(a)
           ELSE /\ mover' = [mover EXCEPT ![a] = [pc |-> "transfer", virtue |-> o.virtue,
                                                  valor_dest |-> o.valor_dest]]
                /\ cmdFeed' = [cmdFeed EXCEPT ![a] = Tail(@)]
    /\ UNCHANGED <<row, command, rowFeed, domU, req, calm, bounds>>

\* xl migrate needs the domain here and none of its name there.  Whether it
\* worked is not looked at; the row of the destination is, and a command
\* without a destination ends the thread there.
Transfer(a) ==
    LET v == mover[a].virtue
        d == mover[a].valor_dest
        possible == <<a, v>> \in domU /\ d # None /\ <<d, v>> \notin domU
    IN  /\ mover[a].pc = "transfer"
        /\ Attempt(possible, v, (domU \ {<<a, v>>}) \cup {<<d, v>>})
        /\ IF d = None THEN Die(a)
           ELSE mover' = [mover EXCEPT ![a].pc = "command"] /\ UNCHANGED cmdFeed
        /\ UNCHANGED <<row, command, rowFeed, req, launches, migrations>>

\* Mutant of UpdateCommand: the request is never cleared.
UpdateCommandStaysEnabled(a) ==
    LET v == mover[a].virtue
    IN  /\ mover[a].pc = "command"
        /\ SetCommand(v, [valor_ip |-> mover[a].valor_dest, valor_dest |-> None, enabled |-> TRUE])
        /\ mover' = [mover EXCEPT ![a].pc = "row"]
        /\ UNCHANGED <<row, rowFeed, domU, req, calm, bounds>>

\* The command follows the virtue and is disabled.
UpdateCommand(a) ==
    /\ mover[a].pc = "command"
    /\ SetCommand(mover[a].virtue,
                  [valor_ip |-> mover[a].valor_dest, valor_dest |-> None, enabled |-> FALSE])
    /\ mover' = [mover EXCEPT ![a].pc = "row"]
    /\ UNCHANGED <<row, rowFeed, domU, req, calm, bounds>>

\* Mutant of UpdateRow: only the command is brought up to date.
UpdateRowForgotten(a) ==
    /\ mover[a].pc = "row"
    /\ mover' = [mover EXCEPT ![a] = NoMove]
    /\ UNCHANGED <<row, command, rowFeed, cmdFeed, domU, req, calm, bounds>>

\* The row follows, if there is one; the valor threads ignore a "change".
UpdateRow(a) ==
    LET v == mover[a].virtue
    IN  /\ mover[a].pc = "row"
        /\ row' = IF row[v] = NoRow THEN row ELSE [row EXCEPT ![v].valor = mover[a].valor_dest]
        /\ mover' = [mover EXCEPT ![a] = NoMove]
        /\ UNCHANGED <<command, rowFeed, cmdFeed, domU, req, calm, bounds>>

Step(q) ==
    \/ ReadSource(q) \/ CountVirtues(q) \/ OrderMove(q)
    \/ FindCommand(q) \/ PlaceCommand(q) \/ DeleteRow(q)

Move(a) == TakeOrder(a) \/ Transfer(a) \/ UpdateCommand(a) \/ UpdateRow(a)

Next ==
    \/ \E q \in Request :
          \/ \E v \in Virtue, a \in Valor : Migrate(q, v, a) \/ Launch(q, v, a)
          \/ \E v \in Virtue : Stop(q, v)
          \/ Step(q)
    \/ \E a \in Valor : HandleRow(a) \/ Move(a)

\* Handlers go on, and each Gaius thread goes on with its feed; no user is
\* obliged to ask for anything.
Fairness ==
    /\ \A q \in Request : WF_vars(Step(q))
    /\ \A a \in Valor : WF_vars(HandleRow(a)) /\ WF_vars(Move(a))

Spec == Init /\ [][Next]_vars
FairSpec == Spec /\ Fairness

(***************************************************************************)
(* Properties                                                              *)
(***************************************************************************)

\* Type invariant.
TypeOK ==
    /\ row \in [Virtue -> Row]
    /\ command \in [Virtue -> Command]
    /\ rowFeed \in [Valor -> Seq(RowChange)]
    /\ cmdFeed \in [Valor -> Seq(Order)]
    /\ mover \in [Valor -> Mover]
    /\ domU \subseteq Valor \X Virtue
    /\ req \in [Request -> Handler]
    /\ calm \subseteq Virtue
    /\ launches \in 0 .. MaxLaunches
    /\ migrations \in 0 .. MaxMigrations
    /\ failures \in 0 .. MaxFailures

\* When the operations on a virtue take turns, then between two of them its
\* domain runs exactly where its row says, and nowhere without a row: the
\* order of command, transfer and row update never sends a later stop to the
\* wrong valor (rethink_client.py 46-105, valor.py 559-593).
HostMatchesRow ==
    \A v \in calm : ~ Busy(v) =>
        {a \in Valor : <<a, v>> \in domU} = {row[v].valor} \ {None}

\* The command then names that valor too, so the next migration request finds
\* it, on the feed of the valor that has the domain (rethink_client.py 84-91,
\* valor.py 584-588, 761-764).
CommandFollowsVirtue ==
    \A v \in calm : ~ Busy(v) /\ row[v] # NoRow => command[v].valor_ip = row[v].valor

\* An enabled command is on its way to the thread of the valor it names, or
\* that thread has ended, or the flag is left from one that has and a launch
\* elsewhere wrote it back: no request is dropped between the table and the
\* feed (rethink_client.py 100-105, valor.py 748-764).
EnabledIsHeard ==
    \A v \in calm : command[v].enabled =>
        \E a \in Valor :
            /\ command[v].valor_ip = a
            /\ \/ mover[a].pc = "dead"
               \/ command[v].valor_dest = None /\ \E b \in Valor : mover[b].pc = "dead"
               \/ mover[a].pc \in {"transfer", "command"} /\ mover[a].virtue = v
               \/ \E o \in Elements(cmdFeed[a]) :
                      o.virtue = v /\ o.valor_dest = command[v].valor_dest

\* A migration thread ends only over a virtue whose requests overlapped: one
\* operation at a time never makes Gaius stop migrating (rethink_client.py
\* 71-77).
MoversSurvive == (\E a \in Valor : mover[a].pc = "dead") => calm # Virtue

\* What test_valor_migrate_virtue asserts after a migration (test_valor.py
\* 254-255): the virtue does not run on the source, it runs on the
\* destination, where its row now says it is.
MigratedVirtueRuns ==
    \A v \in Virtue : ~ Busy(v) /\ row[v] # NoRow => <<row[v].valor, v>> \in domU

\* What test_virtue_stop asserts (test_user_api.py 353): a virtue that has
\* been stopped has no row.
StopRemovesRow == [][\A q \in Request : DeleteRow(q) => row'[req[q].virtue] = NoRow]_vars

\* A requested migration comes to an end: an enabled command is disabled
\* (rethink_client.py 87) unless its virtue's operations overlap or the thread
\* has ended over another virtue.
MigrationEnds ==
    \A v \in Virtue :
        command[v].enabled ~>
            \/ ~ command[v].enabled
            \/ v \notin calm
            \/ \E a \in Valor : mover[a].pc = "dead"

\* What test_valor_migrate_virtue waits a minute for (test_valor.py 252-255):
\* a migration that is asked for is carried out, unless the virtue is stopped.
MigrationServed ==
    \A v \in Virtue : command[v].enabled ~> ~ command[v].enabled \/ row[v] = NoRow
=============================================================================
