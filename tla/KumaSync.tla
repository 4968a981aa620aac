------------------------------ MODULE KumaSync ------------------------------
(***************************************************************************)
(* One `kuma_sync.py multi` run (scripts/kuma_sync.py): the monitors that  *)
(* a list of project files declares are created or edited on the Uptime    *)
(* Kuma server, project by project over one connection, and then monitors  *)
(* no project declares are pruned.                                         *)
(*                                                                         *)
(* A call to the server is tried up to Attempts times over new             *)
(* connections. An attempt without an answer may have been carried out,    *)
(* may never be, or may be by the busy server later. Kuma does not mind    *)
(* two monitors of one name, so a monitor is a name and a serial number.   *)
(* Its settings are `ok` when they are the declared ones; its channels are *)
(* kept apart, since the run may decide to leave them alone.               *)
(***************************************************************************)
EXTENDS Naturals, Sequences

CONSTANTS
    Projects,   \* the project files in their order, each the names it declares
    Names,      \* monitor names
    Channels,   \* notification channels
    Default,    \* the channels notifications.yml declares `default: true`
    Named,      \* the channels each monitor declares itself
    Prune,      \* the run was started with --prune
    Attempts,   \* attempts at one call, 5 in the code
    Serials,    \* bound: the monitors one name can have
    Absent,     \* no such monitor
    Before      \* the sets of monitors a run may find

NamesOf(k) == {Projects[k][j] : j \in DOMAIN Projects[k]}

AllNames == UNION {NamesOf(k) : k \in DOMAIN Projects}

Monitors == Names \X Serials

Contents == [ok : BOOLEAN, channels : SUBSET Channels]

ASSUME KumaAssumption ==
    /\ Projects \in Seq(Seq(Names))
    /\ Default \subseteq Channels
    /\ Named \in [Names -> SUBSET Channels]
    /\ Prune \in BOOLEAN
    /\ Attempts \in Nat \ {0}
    /\ Serials \subseteq Nat
    /\ Absent \notin Contents
    /\ Before \subseteq [Monitors -> Contents \cup {Absent}]

VARIABLES
    stage,      \* where sync_monitors_multi is
    app,        \* the project being processed
    spec,       \* the declaration being processed
    recovery,   \* the local `recovery_attempt`
    link,       \* "up": the session holds a logged-in connection
    call,       \* the call being tried, or Idle
    attempt,    \* the attempt of it
    seen,       \* the local `existing`: for a name, a serial and its contents
    resolved,   \* the local `notifications_resolved`
    declared,   \* the local `all_declared_names`
    failed,     \* the local `failed_apps`
    over,       \* the wall-clock budget is exceeded
    exit,       \* how the run ended
    monitors,   \* Kuma's monitors
    live,       \* the channels Kuma has
    late,       \* calls the server may still carry out
    spent       \* history: attempts made over the budget

place == <<stage, app, spec, recovery>>
rpc == <<link, call, attempt>>
told == <<seen, resolved, declared, failed>>
server == <<monitors, live, late>>
vars == <<place, rpc, told, over, exit, server, spent>>

-----------------------------------------------------------------------------
(* What a declaration asks for.                                            *)

\* combined: the default and the named channels Kuma has.
Wanted(n) == (Default \cup Named[n]) \cap live

\* Wrong variant: an empty list of channels is taken for the real one.
ProtectedIfNamed(n) == Named[n] # {} /\ Wanted(n) = {}

\* protect_unresolvable: the monitor's channels are left as they are, because
\* the channels could not be listed or nothing declared for it exists.
Protected(n) ==
    \/ ~resolved
    \/ Named[n] # {} /\ Wanted(n) = {}

\* _monitor_changed: only keys the declaration sets are compared.
Changed(n, was) ==
    \/ ~was.ok
    \/ ~Protected(n) /\ was.channels # Wanted(n)

-----------------------------------------------------------------------------
(* Calls.                                                                  *)

Idle == [op |-> "idle"]
Read == [op |-> "read"]

Writes == [op : {"add", "edit", "delete"}, name : Names, serial : Serials \cup {0},
           assign : BOOLEAN, channels : SUBSET Channels]

AddCall(n) ==
    [op |-> "add", name |-> n, serial |-> 0,
     assign |-> ~Protected(n), channels |-> Wanted(n)]

EditCall(n) ==
    [op |-> "edit", name |-> n, serial |-> seen[n].serial,
     assign |-> ~Protected(n), channels |-> Wanted(n)]

DeleteCall(n) ==
    [op |-> "delete", name |-> n, serial |-> seen[n].serial,
     assign |-> FALSE, channels |-> {}]

\* What the server makes of the monitor a write addresses.
Result(c, was) ==
    IF c.op = "delete" THEN Absent
    ELSE [ok |-> TRUE,
          channels |-> IF c.assign THEN c.channels
                       ELSE IF c.op = "add" THEN {} ELSE was.channels]

\* The monitor a write addresses: a new one, or one that still exists.
Addresses(c, i) ==
    /\ i[1] = c.name
    /\ IF c.op = "add"
       THEN /\ monitors[i] = Absent
            /\ \A s \in Serials : s < i[2] => monitors[<<c.name, s>>] # Absent
       ELSE i[2] = c.serial /\ monitors[i] # Absent

\* The server carries the call out; a read, or deleting what is gone, changes
\* nothing.
CarryOut(c) ==
    \/ /\ \/ c.op = "read"
          \/ c.op = "delete" /\ monitors[<<c.name, c.serial>>] = Absent
       /\ UNCHANGED monitors
    \/ \E i \in Monitors :
        /\ c \in Writes
        /\ Addresses(c, i)
        /\ monitors' = [monitors EXCEPT ![i] = Result(c, monitors[i])]

\* get_monitors as a dict by name: of two monitors of one name one is lost.
List ==
    \E pick \in [Names -> Serials] :
        /\ \A n \in Names : \/ monitors[<<n, pick[n]>>] # Absent
                            \/ \A s \in Serials : monitors[<<n, s>>] = Absent
        /\ seen' = [n \in Names |->
                       IF monitors[<<n, pick[n]>>] = Absent THEN Absent
                       ELSE [serial |-> pick[n], was |-> monitors[<<n, pick[n]>>]]]

-----------------------------------------------------------------------------

Stages == {"login", "channels", "projects", "read", "spec", "sync", "reread",
           "list", "prune", "ended"}

Exits == {"none", "ok", "failed", "budget", "login", "crash"}

TypeOK ==
    /\ stage \in Stages
    /\ app \in 1 .. Len(Projects) + 1
    /\ spec \in Nat
    /\ recovery \in 1 .. 2
    /\ link \in {"up", "down"}
    /\ call \in Writes \cup {Idle, Read}
    /\ attempt \in 1 .. Attempts
    /\ seen \in [Names -> [serial : Serials, was : Contents] \cup {Absent}]
    /\ resolved \in BOOLEAN
    /\ declared \subseteq Names
    /\ failed \subseteq DOMAIN Projects
    /\ over \in BOOLEAN
    /\ exit \in Exits
    /\ monitors \in [Monitors -> Contents \cup {Absent}]
    /\ live \subseteq Channels
    /\ late \subseteq Writes
    /\ spent \in Nat

Init ==
    /\ stage = "login" /\ app = 1 /\ spec = 1 /\ recovery = 1
    /\ link = "down" /\ call = Idle /\ attempt = 1
    /\ seen = [n \in Names |-> Absent]
    /\ resolved = FALSE
    /\ declared = {} /\ failed = {}
    /\ over = FALSE
    /\ exit = "none"
    /\ monitors \in Before
    /\ live \in SUBSET Channels
    /\ late = {}
    /\ spent = 0

-----------------------------------------------------------------------------
(* Steps the handlers share.                                               *)

StartCall(c) ==
    /\ call' = c
    /\ attempt' = 1

HangUp ==
    /\ call' = Idle
    /\ UNCHANGED attempt

\* The `finally` block disconnects, then the process exits.
End(status) ==
    /\ stage' = "ended"
    /\ link' = "down"
    /\ exit' = status
    /\ HangUp
    /\ UNCHANGED <<app, spec, recovery>>

ToNextProject ==
    /\ stage' = "projects"
    /\ app' = app + 1
    /\ HangUp
    /\ UNCHANGED <<spec, recovery, link, exit>>

Trying ==
    /\ link = "up"
    /\ call # Idle
    /\ spent' = IF over THEN spent + 1 ELSE spent

Ready ==
    /\ link = "up"
    /\ call = Idle
    /\ UNCHANGED <<server, over, spent>>

-----------------------------------------------------------------------------
(* Connecting. _login's own tries are one step: a new connection, or exit. *)

FirstLogin ==
    /\ stage = "login"
    /\ stage' = "channels"
    /\ link' = "up"
    /\ StartCall(Read)
    /\ UNCHANGED <<app, spec, recovery, told, over, exit, server, spent>>

Reconnect ==
    /\ link = "down"
    /\ stage \notin {"login", "ended"}
    /\ link' = "up"
    /\ UNCHANGED <<place, call, attempt, told, over, exit, server, spent>>

LoginFails ==
    /\ link = "down"
    /\ stage # "ended"
    /\ End("login")
    /\ UNCHANGED <<told, over, server, spent>>

-----------------------------------------------------------------------------
(* Calls that are answered.                                                *)

ChannelsListed ==
    /\ Trying
    /\ stage = "channels"
    /\ resolved' = TRUE
    /\ stage' = "projects"
    /\ HangUp
    /\ UNCHANGED <<app, spec, recovery, link, seen, declared, failed, over,
                   exit, server>>

MonitorsListed ==
    /\ Trying
    /\ \/ stage = "read" /\ stage' = "spec" /\ spec' = 1
       \/ stage = "reread" /\ stage' = "sync" /\ UNCHANGED spec
       \/ stage = "list" /\ stage' = "prune" /\ UNCHANGED spec
    /\ List
    /\ HangUp
    /\ UNCHANGED <<app, recovery, link, resolved, declared, failed, over, exit,
                   server>>

Synced ==
    /\ stage' = "spec"
    /\ spec' = spec + 1
    /\ HangUp
    /\ UNCHANGED <<app, recovery, link, told, over, exit>>

Written ==
    /\ Trying
    /\ stage = "sync"
    /\ CarryOut(call)
    /\ Synced
    /\ UNCHANGED <<live, late>>

Deleted ==
    /\ Trying
    /\ stage = "prune"
    /\ CarryOut(call)
    /\ seen' = [seen EXCEPT ![call.name] = Absent]
    /\ HangUp
    /\ UNCHANGED <<place, link, resolved, declared, failed, over, exit, live,
                   late>>

-----------------------------------------------------------------------------
(* Attempts that fail: with "drop", a message that sounds like a lost      *)
(* session, with "refused", one that says a retry is useless, or otherwise.*)

Kinds == {"drop", "refused", "other"}

\* Without an answer the call may have been carried out, or may be later.
Unanswered(kind) ==
    /\ Trying
    /\ \/ UNCHANGED <<monitors, late>>
       \/ kind # "refused" /\ CarryOut(call) /\ UNCHANGED late
       \/ /\ kind # "refused" /\ call \in Writes
          /\ late' = late \cup {call} /\ UNCHANGED monitors
    /\ UNCHANGED <<live, over>>

MayRetry(kind) == kind # "refused" /\ attempt < Attempts

Retry(kind) ==
    /\ Unanswered(kind)
    /\ MayRetry(kind)
    /\ ~over
    /\ link' = "down"
    /\ attempt' = attempt + 1
    /\ UNCHANGED <<place, call, told, exit>>

RetryOverBudget(kind) ==
    /\ Unanswered(kind)
    /\ MayRetry(kind)
    /\ over
    /\ End("budget")
    /\ UNCHANGED told

\* Without the list of channels the run goes on and leaves channels alone.
ChannelsUnknown(kind) ==
    /\ Unanswered(kind)
    /\ ~MayRetry(kind)
    /\ stage = "channels"
    /\ resolved' = FALSE
    /\ stage' = "projects"
    /\ HangUp
    /\ UNCHANGED <<app, spec, recovery, link, seen, declared, failed, exit>>

\* Wrong variant: recoveries are not counted.
RecoverForEver(kind) ==
    /\ Unanswered(kind)
    /\ ~MayRetry(kind)
    /\ stage = "sync" /\ recovery = 1 /\ kind = "drop"
    /\ link' = "down"
    /\ stage' = "reread"
    /\ StartCall(Read)
    /\ UNCHANGED <<app, spec, recovery, told, exit>>

\* A lost session is replaced once for each declaration.
Recover(kind) ==
    /\ Unanswered(kind)
    /\ ~MayRetry(kind)
    /\ stage = "sync" /\ recovery = 1 /\ kind = "drop"
    /\ recovery' = 2
    /\ link' = "down"
    /\ stage' = "reread"
    /\ StartCall(Read)
    /\ UNCHANGED <<app, spec, told, exit>>

\* Wrong variant: the project is left without being noted as failed.
ProjectLeft(kind) ==
    /\ Unanswered(kind)
    /\ ~MayRetry(kind)
    /\ stage \in {"read", "reread", "sync"}
    /\ ToNextProject
    /\ UNCHANGED told

ProjectFails(kind) ==
    /\ Unanswered(kind)
    /\ ~MayRetry(kind)
    /\ \/ stage \in {"read", "reread"}
       \/ stage = "sync" /\ ~(recovery = 1 /\ kind = "drop")
    /\ failed' = failed \cup {app}
    /\ ToNextProject
    /\ UNCHANGED <<seen, resolved, declared>>

\* Nothing catches a failure of the prune.
PruneFails(kind) ==
    /\ Unanswered(kind)
    /\ ~MayRetry(kind)
    /\ stage \in {"list", "prune"}
    /\ End("crash")
    /\ UNCHANGED told

-----------------------------------------------------------------------------
(* Between calls.                                                          *)

OpenProject ==
    /\ Ready
    /\ stage = "projects" /\ app <= Len(Projects)
    /\ stage' = "read"
    /\ StartCall(Read)
    /\ UNCHANGED <<app, spec, recovery, link, told, exit>>

\* The file is missing, cannot be parsed, or declares unacceptable data.
Unusable ==
    /\ Ready
    /\ stage = "projects" /\ app <= Len(Projects)
    /\ failed' = failed \cup {app}
    /\ ToNextProject
    /\ UNCHANGED <<seen, resolved, declared>>

\* Wrong variant: the budget is only looked at when an attempt has failed.
DeclareAnyway ==
    /\ Ready
    /\ stage = "spec" /\ spec <= Len(Projects[app])
    /\ declared' = declared \cup {Projects[app][spec]}
    /\ stage' = "sync" /\ recovery' = 1
    /\ UNCHANGED <<app, spec, rpc, exit, seen, resolved, failed>>

\* The next declaration, if the budget allows another monitor.
Declare ==
    /\ Ready
    /\ stage = "spec" /\ spec <= Len(Projects[app])
    /\ declared' = declared \cup {Projects[app][spec]}
    /\ IF over THEN End("budget")
       ELSE /\ stage' = "sync"
            /\ recovery' = 1
            /\ UNCHANGED <<app, spec, rpc, exit>>
    /\ UNCHANGED <<seen, resolved, failed>>

\* A setting of the declaration is not of the kind its key needs (an interval
\* that is no number): building the arguments raises, and nothing catches it.
SettingRaises ==
    /\ Ready
    /\ stage = "spec" /\ spec <= Len(Projects[app])
    /\ declared' = declared \cup {Projects[app][spec]}
    /\ End("crash")
    /\ UNCHANGED <<seen, resolved, failed>>

\* Create, edit, or leave alone.
Compare ==
    /\ Ready
    /\ stage = "sync"
    /\ LET n == Projects[app][spec]
       IN  \/ /\ seen[n] = Absent
              /\ StartCall(AddCall(n))
              /\ UNCHANGED <<place, link, told, exit>>
           \/ /\ seen[n] # Absent /\ Changed(n, seen[n].was)
              /\ StartCall(EditCall(n))
              /\ UNCHANGED <<place, link, told, exit>>
           \/ /\ seen[n] # Absent /\ ~Changed(n, seen[n].was)
              /\ Synced

ProjectDone ==
    /\ Ready
    /\ stage = "spec" /\ spec > Len(Projects[app])
    /\ ToNextProject
    /\ UNCHANGED told

\* Wrong variant: whatever was declared so far is pruned against.
MayPruneAnyway == Prune

\* No prune unless every project's declarations were seen.
MayPrune == Prune /\ failed = {}

StartPrune ==
    /\ Ready
    /\ stage = "projects" /\ app > Len(Projects)
    /\ MayPrune
    /\ stage' = "list"
    /\ StartCall(Read)
    /\ UNCHANGED <<app, spec, recovery, link, told, exit>>

Finish ==
    /\ Ready
    /\ stage = "projects" /\ app > Len(Projects)
    /\ ~MayPrune
    /\ End(IF failed = {} THEN "ok" ELSE "failed")
    /\ UNCHANGED told

Stale == {n \in Names \ declared : seen[n] # Absent}

PruneNext ==
    /\ Ready
    /\ stage = "prune"
    /\ \E n \in Stale :
        IF over THEN End("budget")
        ELSE StartCall(DeleteCall(n)) /\ UNCHANGED <<place, link, exit>>
    /\ UNCHANGED told

PruneDone ==
    /\ Ready
    /\ stage = "prune" /\ Stale = {}
    /\ End("ok")
    /\ UNCHANGED told

-----------------------------------------------------------------------------
(* The surroundings: the clock, and a server behind with its work.         *)

BudgetRunsOut ==
    /\ ~over /\ stage # "ended"
    /\ over' = TRUE
    /\ UNCHANGED <<place, rpc, told, exit, server, spent>>

CarriedOutLate ==
    \E c \in late :
        /\ CarryOut(c)
        /\ late' = late \ {c}
        /\ UNCHANGED <<place, rpc, told, over, exit, live, spent>>

-----------------------------------------------------------------------------

Failing ==
    \E kind \in Kinds :
        \/ Retry(kind) \/ RetryOverBudget(kind) \/ ChannelsUnknown(kind)
        \/ Recover(kind) \/ ProjectFails(kind) \/ PruneFails(kind)

Run ==
    \/ FirstLogin \/ Reconnect \/ LoginFails
    \/ ChannelsListed \/ MonitorsListed \/ Written \/ Deleted
    \/ Failing
    \/ OpenProject \/ Unusable \/ Declare \/ SettingRaises \/ Compare \/ ProjectDone
    \/ StartPrune \/ Finish \/ PruneNext \/ PruneDone

Next == Run \/ BudgetRunsOut \/ CarriedOutLate

\* Every call has a timeout and every wait an end, so the run keeps moving.
Spec == Init /\ [][Next]_vars /\ WF_vars(Run)

-----------------------------------------------------------------------------
(* Properties.                                                             *)

\* What a project declares is never pruned: not when another project failed
\* or could not be read, not when the budget ran out, and not by a delete
\* that the server carries out late.
PruneSafe ==
    [][\A i \in Monitors :
          monitors[i] # Absent /\ monitors'[i] = Absent => i[1] \notin AllNames]_vars

\* A monitor's channels change only to what the configuration declares and
\* Kuma has, never while the channels are unknown, and never to none when the
\* monitor names channels of its own.
ChannelsKept ==
    [][\A i \in Monitors :
          /\ monitors[i] # Absent /\ monitors'[i] # Absent
          /\ monitors'[i].channels # monitors[i].channels
          => /\ resolved
             /\ monitors'[i].channels = Wanted(i[1])
             /\ monitors'[i].channels = {} => Named[i[1]] = {}]_vars

InSync(n) ==
    \E s \in Serials :
        LET m == monitors[<<n, s>>]
        IN  /\ m # Absent
            /\ m.ok
            /\ ~Protected(n) => m.channels = Wanted(n)

\* A run that got through all projects has brought every monitor of every
\* project it does not report as failed in line, and exits 0 only if it
\* reports none; one bad project does not take the others with it.
ReportIsTrue ==
    exit \in {"ok", "failed"} =>
        /\ exit = "ok" => failed = {}
        /\ \A k \in DOMAIN Projects \ failed : \A n \in NamesOf(k) : InSync(n)

\* Over its budget a run gives up almost at once, however many monitors and
\* attempts are left: the last write under way, one listing and one write to
\* recover from its failure, and one listing for each further project and for
\* the prune. The budget is looked at before a monitor, not before a project,
\* so a project that declares nothing, or cannot be listed, costs its listing.
AbortIsPrompt == spent <= Len(Projects) + 3

\* Every run ends.
Ends == <>(stage = "ended")

\* A name identifies a monitor (_domain_slug: "Kuma monitor names are the
\* sync's identity key"). The first copy comes from the run itself, when an
\* add is tried again that was carried out without an answer.
NamesIdentify ==
    \A i, j \in Monitors :
        monitors[i] # Absent /\ monitors[j] # Absent /\ i[1] = j[1] => i = j

\* What is wrong with one project does not end the run (docstring of
\* sync_monitors_multi: "Per-app errors are caught and reported without
\* aborting the remaining apps"): only the prune can.
ProjectErrorsCaught == exit = "crash" => app > Len(Projects)
=============================================================================
