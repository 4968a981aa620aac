--------------------------- MODULE KumaSyncProofs ---------------------------
(***************************************************************************)
(* What is proved about KumaSync, for any list of projects, any channels   *)
(* and any number of attempts: types, that nothing a project declares is   *)
(* pruned, that channels are only changed to what is declared, and that    *)
(* the reported outcome is true.                                           *)
(***************************************************************************)
EXTENDS KumaSync, TLAPS

InProject == {"spec", "sync", "reread"}

\* Where the run is decides what may be called.
PlaceInv ==
    /\ stage \in {"login", "channels"} =>
         /\ app = 1 /\ late = {}
         /\ \A n \in Names : seen[n] = Absent
    /\ stage \in InProject \cup {"read"} => app <= Len(Projects)
    /\ stage \in InProject => spec \in 1 .. Len(Projects[app]) + 1
    /\ stage \in {"sync", "reread"} => spec <= Len(Projects[app])
    /\ stage \in {"list", "prune"} => app = Len(Projects) + 1 /\ failed = {}
    /\ stage \in {"channels", "read", "reread", "list"} => call = Read
    /\ stage \in {"login", "projects", "spec", "ended"} => call = Idle
    /\ stage \in {"sync", "prune"} => call # Read
    /\ stage = "sync" /\ call # Idle =>
         call.op \in {"add", "edit"} /\ call.name = Projects[app][spec]
    /\ exit \in {"ok", "failed"} =>
         /\ stage = "ended" /\ app = Len(Projects) + 1
         /\ exit = "ok" => failed = {}

\* Every name of a project that has not failed was declared on the way.
DeclaredInv ==
    /\ \A k \in 1 .. app - 1 : k \notin failed => NamesOf(k) \subseteq declared
    /\ stage \in InProject =>
         \A j \in 1 .. spec - 1 : Projects[app][j] \in declared
    /\ stage \in {"sync", "reread"} => Projects[app][spec] \in declared

\* What a write that is under way, or late, is meant to do.
Meant(c) ==
    /\ c.op = "delete" => c.name \notin AllNames
    /\ c.op # "delete" =>
         /\ c.name \in AllNames
         /\ c.assign = ~Protected(c.name)
         /\ c.channels = Wanted(c.name)

MeantInv ==
    /\ call \in Writes => Meant(call)
    /\ \A c \in late : Meant(c)

\* What the run takes to be in line is.
SeenInv ==
    \A n \in AllNames : seen[n] # Absent => Changed(n, seen[n].was) \/ InSync(n)

\* The declarations the run has dealt with: of the projects it has passed
\* without a failure, and of the one it is in.
PassedNames ==
    {n \in AllNames :
        \/ \E k \in 1 .. app - 1 : k \notin failed /\ n \in NamesOf(k)
        \/ stage \in InProject /\ \E j \in 1 .. spec - 1 : n = Projects[app][j]}

PassedInv == \A n \in PassedNames : InSync(n)

KumaInv == TypeOK /\ PlaceInv /\ DeclaredInv /\ MeantInv /\ SeenInv /\ PassedInv

-----------------------------------------------------------------------------
(* Operators.                                                              *)

\* A write is neither a read nor the absence of a call.
LEMMA CallKinds ==
  /\ Idle \notin Writes /\ Read \notin Writes /\ Idle # Read
  /\ Idle.op = "idle" /\ Read.op = "read"
  BY DEF Idle, Read, Writes

\* A name a project declares is a name.
LEMMA DeclaredNames ==
  /\ AllNames \subseteq Names
  /\ \A k \in 1 .. Len(Projects) :
        /\ NamesOf(k) \subseteq AllNames
        /\ Len(Projects[k]) \in Nat
        /\ NamesOf(k) = {Projects[k][j] : j \in 1 .. Len(Projects[k])}
        /\ \A j \in 1 .. Len(Projects[k]) : Projects[k][j] \in NamesOf(k)
  <1>1. ASSUME NEW k \in 1 .. Len(Projects)
        PROVE  /\ Projects[k] \in Seq(Names)
               /\ k \in DOMAIN Projects
    BY KumaAssumption
  <1>2. ASSUME NEW k \in 1 .. Len(Projects)
        PROVE  /\ Len(Projects[k]) \in Nat
               /\ DOMAIN Projects[k] = 1 .. Len(Projects[k])
               /\ \A j \in 1 .. Len(Projects[k]) : Projects[k][j] \in Names
    BY <1>1
  <1>3. DOMAIN Projects = 1 .. Len(Projects)
    BY KumaAssumption
  <1>4. ASSUME NEW k \in 1 .. Len(Projects)
        PROVE  /\ NamesOf(k) = {Projects[k][j] : j \in 1 .. Len(Projects[k])}
               /\ NamesOf(k) \subseteq Names
               /\ \A j \in 1 .. Len(Projects[k]) : Projects[k][j] \in NamesOf(k)
    BY <1>2 DEF NamesOf
  <1>5. \A k \in 1 .. Len(Projects) : NamesOf(k) \subseteq AllNames
    BY <1>3 DEF AllNames
  <1>6. AllNames \subseteq Names
    BY <1>3, <1>4 DEF AllNames
  <1>7. QED
    BY <1>2, <1>4, <1>5, <1>6

\* The calls the run makes are writes, meant as declared.
LEMMA Calls ==
  ASSUME TypeOK, NEW n \in Names
  PROVE  /\ AddCall(n) \in Writes /\ AddCall(n).op = "add" /\ AddCall(n).name = n
         /\ seen[n] # Absent =>
              /\ EditCall(n) \in Writes /\ EditCall(n).op = "edit"
              /\ DeleteCall(n) \in Writes /\ DeleteCall(n).op = "delete"
              /\ EditCall(n).name = n /\ DeleteCall(n).name = n
         /\ n \in AllNames => Meant(AddCall(n)) /\ Meant(EditCall(n))
         /\ n \notin AllNames => Meant(DeleteCall(n))
  <1>1. Wanted(n) \in SUBSET Channels
    BY KumaAssumption DEF Wanted, TypeOK
  <1>2. Protected(n) \in BOOLEAN
    BY DEF Protected, TypeOK
  <1>3. seen[n] # Absent => seen[n].serial \in Serials
    BY DEF TypeOK
  <1>4. QED
    BY <1>1, <1>2, <1>3 DEF AddCall, EditCall, DeleteCall, Writes, Meant

\* A write that is carried out replaces one monitor of its name; a read that
\* is carried out replaces none.
LEMMA Carried ==
  ASSUME TypeOK, NEW c \in Writes \cup {Read}, CarryOut(c)
  PROVE  \/ monitors' = monitors /\ (c = Read \/ c.op = "delete")
         \/ /\ c \in Writes
            /\ \E i \in Monitors :
                 /\ i[1] = c.name
                 /\ c.op = "add" => monitors[i] = Absent
                 /\ c.op # "add" => monitors[i] \in Contents
                 /\ Result(c, monitors[i]) \in Contents \cup {Absent}
                 /\ c.op # "delete" => Result(c, monitors[i]) \in Contents
                 /\ monitors' = [monitors EXCEPT ![i] = Result(c, monitors[i])]
  <1>1. CASE UNCHANGED monitors /\ (c.op = "read" \/ c.op = "delete")
    BY <1>1, CallKinds DEF Writes
  <1>2. ASSUME NEW i \in Monitors, c \in Writes, Addresses(c, i),
               monitors' = [monitors EXCEPT ![i] = Result(c, monitors[i])]
        PROVE  /\ i[1] = c.name
               /\ c.op = "add" => monitors[i] = Absent
               /\ c.op # "add" => monitors[i] \in Contents
               /\ Result(c, monitors[i]) \in Contents \cup {Absent}
               /\ c.op # "delete" => Result(c, monitors[i]) \in Contents
    <2>1. monitors[i] \in Contents \cup {Absent}
      BY DEF TypeOK
    <2>2. /\ i[1] = c.name
          /\ c.op = "add" => monitors[i] = Absent
          /\ c.op # "add" => monitors[i] \in Contents
      BY <1>2, <2>1 DEF Addresses
    <2>3. c.op # "delete" => Result(c, monitors[i]) \in Contents
      BY <1>2, <2>2 DEF Result, Contents, Writes
    <2>4. QED
      BY <2>2, <2>3 DEF Result
  <1>3. QED
    BY <1>1, <1>2 DEF CarryOut

-----------------------------------------------------------------------------
(* What a step can do to the server.                                       *)

\* The call under way is a write or a read.
LEMMA Underway ==
  ASSUME KumaInv, call # Idle
  PROVE  /\ call \in Writes \cup {Read}
         /\ call \in Writes => Meant(call)
  BY DEF KumaInv, TypeOK, MeantInv

\* The server's monitors change only as a write that is meant is carried out.
ServerMove ==
    \/ monitors' = monitors
    \/ \E c \in Writes : Meant(c) /\ CarryOut(c)

\* Every step moves the server in that way, or not at all.
LEMMA ServerMoves ==
  ASSUME KumaInv, [Next]_vars
  PROVE  live' = live /\ ServerMove
  <1>1. ASSUME NEW c \in Writes \cup {Read}, c \in Writes => Meant(c), CarryOut(c)
        PROVE  ServerMove
    BY <1>1, Carried DEF KumaInv, ServerMove
  <1>2. ASSUME NEW kind \in Kinds, Unanswered(kind)
        PROVE  live' = live /\ ServerMove
    <2>1. call # Idle /\ live' = live
      BY <1>2 DEF Unanswered, Trying
    <2>2. monitors' = monitors \/ CarryOut(call)
      BY <1>2 DEF Unanswered
    <2>3. QED
      BY <1>1, <2>1, <2>2, Underway DEF ServerMove
  <1>3. CASE Failing
    BY <1>2, <1>3 DEF Failing, Retry, RetryOverBudget, ChannelsUnknown, Recover,
                      ProjectFails, PruneFails
  <1>4. CASE Written \/ Deleted
    <2>1. call # Idle /\ live' = live /\ CarryOut(call)
      BY <1>4 DEF Written, Deleted, Trying
    <2>2. QED
      BY <1>1, <2>1, Underway
  <1>5. CASE CarriedOutLate
    <2>1. PICK c \in late : CarryOut(c) /\ live' = live
      BY <1>5 DEF CarriedOutLate
    <2>2. c \in Writes /\ Meant(c)
      BY DEF KumaInv, TypeOK, MeantInv
    <2>3. QED
      BY <1>1, <2>1, <2>2
  <1>6. CASE FirstLogin \/ Reconnect \/ LoginFails \/ ChannelsListed \/ MonitorsListed
             \/ BudgetRunsOut
    BY <1>6 DEF FirstLogin, Reconnect, LoginFails, ChannelsListed, MonitorsListed,
                BudgetRunsOut, server, ServerMove
  <1>7. CASE OpenProject \/ Unusable \/ Declare \/ SettingRaises
             \/ Compare \/ ProjectDone
             \/ StartPrune \/ Finish \/ PruneNext \/ PruneDone
    BY <1>7 DEF OpenProject, Unusable, Declare, SettingRaises, Compare,
                ProjectDone, StartPrune, Finish, PruneNext, PruneDone, Ready, server, ServerMove
  <1>8. CASE UNCHANGED vars
    BY <1>8 DEF vars, server, ServerMove
  <1>9. QED
    BY <1>3, <1>4, <1>5, <1>6, <1>7, <1>8 DEF Next, Run

\* What the channels are taken to be is settled before anything is written.
LEMMA Settled ==
  ASSUME KumaInv, [Next]_vars, stage # "channels"
  PROVE  resolved' = resolved
  <1>1. CASE Failing
    BY <1>1 DEF Failing, Retry, RetryOverBudget, ChannelsUnknown, Recover,
                ProjectFails, PruneFails, told
  <1>2. CASE FirstLogin \/ Reconnect \/ LoginFails \/ ChannelsListed \/ MonitorsListed
             \/ BudgetRunsOut \/ CarriedOutLate \/ Written \/ Deleted
    BY <1>2 DEF FirstLogin, Reconnect, LoginFails, ChannelsListed, MonitorsListed,
                BudgetRunsOut, CarriedOutLate, Written, Deleted, Synced, told
  <1>3. CASE OpenProject \/ Unusable \/ Declare \/ SettingRaises
             \/ Compare \/ ProjectDone
             \/ StartPrune \/ Finish \/ PruneNext \/ PruneDone
    BY <1>3 DEF OpenProject, Unusable, Declare, SettingRaises, Compare,
                ProjectDone, StartPrune, Finish, PruneNext, PruneDone, Synced, told
  <1>4. CASE UNCHANGED vars
    BY <1>4 DEF vars, told
  <1>5. QED
    BY <1>1, <1>2, <1>3, <1>4 DEF Next, Run

\* A write that is meant never takes a monitor out of line.
LEMMA StaysInSync ==
  ASSUME KumaInv, ServerMove, UNCHANGED <<live, resolved>>,
         NEW n \in AllNames, InSync(n)
  PROVE  InSync(n)'
  <1>1. Wanted(n)' = Wanted(n) /\ Protected(n)' = Protected(n)
    BY DEF Wanted, Protected
  <1>2. CASE monitors' = monitors
    BY <1>1, <1>2 DEF InSync
  <1>3. ASSUME NEW c \in Writes, Meant(c), CarryOut(c), monitors' # monitors
        PROVE  InSync(n)'
    <2>1. PICK i \in Monitors :
             /\ i[1] = c.name
             /\ c.op = "add" => monitors[i] = Absent
             /\ c.op # "delete" => Result(c, monitors[i]) \in Contents
             /\ monitors' = [monitors EXCEPT ![i] = Result(c, monitors[i])]
      BY <1>3, Carried DEF KumaInv
    <2>2. PICK s \in Serials :
             /\ monitors[<<n, s>>] # Absent
             /\ monitors[<<n, s>>].ok
             /\ ~Protected(n) => monitors[<<n, s>>].channels = Wanted(n)
      BY DEF InSync
    <2>3. <<n, s>> \in Monitors
      BY DeclaredNames DEF Monitors
    <2>4. CASE i # <<n, s>>
      <3>1. monitors'[<<n, s>>] = monitors[<<n, s>>]
        BY <2>1, <2>3, <2>4 DEF KumaInv, TypeOK
      <3>2. QED
        BY <1>1, <2>2, <3>1 DEF InSync
    <2>5. CASE i = <<n, s>>
      <3>1. c.name = n /\ c.op = "edit"
        BY <1>3, <2>1, <2>2, <2>5 DEF Meant, Writes
      <3>2. monitors'[<<n, s>>] = Result(c, monitors[<<n, s>>])
        BY <2>1, <2>3, <2>5 DEF KumaInv, TypeOK
      <3>3. /\ c.assign = ~Protected(n)
            /\ c.channels = Wanted(n)
        BY <1>3, <3>1 DEF Meant
      <3>4. /\ monitors'[<<n, s>>].ok
            /\ ~Protected(n) => monitors'[<<n, s>>].channels = Wanted(n)
        <4>1. /\ Result(c, monitors[<<n, s>>]).ok
              /\ c.assign => Result(c, monitors[<<n, s>>]).channels = c.channels
          BY <3>1 DEF Result
        <4>2. ~Protected(n) => c.assign
          BY <3>3
        <4>3. QED
          BY <3>2, <3>3, <4>1, <4>2
      <3>5. monitors'[<<n, s>>] # Absent
        BY <2>1, <2>5, <3>1, <3>2, KumaAssumption
      <3>6. QED
        BY <1>1, <3>4, <3>5 DEF InSync
    <2>6. QED
      BY <2>4, <2>5
  <1>4. QED
    BY <1>2, <1>3 DEF ServerMove

-----------------------------------------------------------------------------
(* The invariant is inductive.                                             *)

\* The invariant holds before the first login.
LEMMA InitKumaInv == Init => KumaInv
  <1> SUFFICES ASSUME Init PROVE KumaInv
    OBVIOUS
  <1>1. TypeOK
    <2>1. Len(Projects) \in Nat
      BY KumaAssumption
    <2>2. monitors \in [Monitors -> Contents \cup {Absent}]
      BY KumaAssumption DEF Init
    <2>3. QED
      <3>1. attempt \in 1 .. Attempts /\ app \in 1 .. Len(Projects) + 1
        BY <2>1, KumaAssumption DEF Init
      <3>2. seen \in [Names -> [serial : Serials, was : Contents] \cup {Absent}]
        BY DEF Init
      <3>3. /\ stage \in Stages /\ exit \in Exits /\ link \in {"up", "down"}
            /\ call \in Writes \cup {Idle, Read}
            /\ late \subseteq Writes /\ live \subseteq Channels
        BY DEF Init, Stages, Exits
      <3>4. resolved \in BOOLEAN /\ over \in BOOLEAN
        BY DEF Init
      <3>5. declared \subseteq Names /\ failed \subseteq DOMAIN Projects
        BY DEF Init
      <3>6. spec \in Nat /\ spent \in Nat /\ recovery \in 1 .. 2
        BY DEF Init
      <3>7. QED
        BY <2>2, <3>1, <3>2, <3>3, <3>4, <3>5, <3>6 DEF TypeOK
  <1>2. PlaceInv
    BY DEF Init, PlaceInv, InProject
  <1>3. DeclaredInv
    BY DEF Init, DeclaredInv, InProject
  <1>4. MeantInv
    BY CallKinds DEF Init, MeantInv
  <1>5. SeenInv /\ PassedInv
    BY DeclaredNames DEF Init, SeenInv, PassedInv, PassedNames, InProject
  <1>6. QED
    BY <1>1, <1>2, <1>3, <1>4, <1>5 DEF KumaInv

\* The server keeps a monitor well formed, whatever it carries out.
LEMMA ServerTypes ==
  ASSUME TypeOK, ServerMove
  PROVE  monitors' \in [Monitors -> Contents \cup {Absent}]
  <1>1. ASSUME NEW c \in Writes, CarryOut(c)
        PROVE  monitors' \in [Monitors -> Contents \cup {Absent}]
    BY <1>1, Carried DEF TypeOK
  <1>2. QED
    BY <1>1 DEF ServerMove, TypeOK

\* Types, one action at a time; what the server has is ServerTypes.
LEMMA NextTypes ==
  ASSUME KumaInv, [Next]_vars
  PROVE  TypeOK'
  <1> USE DEF TypeOK, Stages, Exits, place, rpc, told, server
  <1>a. monitors' \in [Monitors -> Contents \cup {Absent}] /\ live' \subseteq Channels
    BY ServerMoves, ServerTypes DEF KumaInv
  <1>b. Len(Projects) \in Nat /\ DOMAIN Projects = 1 .. Len(Projects)
    BY KumaAssumption
  <1>c. PlaceInv /\ TypeOK
    BY DEF KumaInv
  <1>1. ASSUME NEW kind \in Kinds,
               \/ Retry(kind) \/ RetryOverBudget(kind) \/ ChannelsUnknown(kind)
               \/ Recover(kind) \/ ProjectFails(kind) \/ PruneFails(kind)
        PROVE  TypeOK'
    <2> USE DEF Unanswered, Trying
    <2>1. CASE Retry(kind)
      BY <1>a, <1>c, <2>1, KumaAssumption DEF Retry, MayRetry
    <2>2. CASE RetryOverBudget(kind) \/ PruneFails(kind)
      BY <1>a, <1>c, <2>2 DEF RetryOverBudget, PruneFails, End, HangUp
    <2>3. CASE ChannelsUnknown(kind)
      <3>1. late' \subseteq Writes /\ spent' \in Nat
        BY <1>c, <2>3 DEF ChannelsUnknown
      <3>2. QED
        BY <1>a, <1>c, <2>3, <3>1 DEF ChannelsUnknown, HangUp
    <2>4. CASE Recover(kind)
      BY <1>a, <1>c, <2>4, KumaAssumption DEF Recover, StartCall
    <2>5. CASE ProjectFails(kind)
      <3>1. app \in 1 .. Len(Projects)
        BY <1>b, <1>c, <2>5 DEF ProjectFails, PlaceInv, InProject
      <3>2. QED
        BY <1>a, <1>b, <1>c, <2>5, <3>1 DEF ProjectFails, ToNextProject, HangUp
    <2>6. QED
      BY <1>1, <2>1, <2>2, <2>3, <2>4, <2>5
  <1>2. CASE FirstLogin \/ Reconnect \/ LoginFails
    BY <1>a, <1>c, <1>2, KumaAssumption
       DEF FirstLogin, Reconnect, LoginFails, StartCall, End, HangUp
  <1>3. CASE ChannelsListed
    BY <1>a, <1>c, <1>3 DEF ChannelsListed, Trying, HangUp
  <1>4. CASE MonitorsListed
    <2>1. seen' \in [Names -> [serial : Serials, was : Contents] \cup {Absent}]
      <3>1. PICK pick \in [Names -> Serials] :
              seen' = [n \in Names |->
                         IF monitors[<<n, pick[n]>>] = Absent THEN Absent
                         ELSE [serial |-> pick[n], was |-> monitors[<<n, pick[n]>>]]]
        BY <1>4 DEF MonitorsListed, List
      <3>2. \A n \in Names : monitors[<<n, pick[n]>>] \in Contents \cup {Absent}
        BY <1>c DEF Monitors
      <3>3. QED
        BY <3>1, <3>2
    <2>2. QED
      BY <1>a, <1>c, <1>4, <2>1 DEF MonitorsListed, Trying, HangUp
  <1>5. CASE Written
    BY <1>a, <1>c, <1>5 DEF Written, Synced, Trying, HangUp
  <1>6. CASE Deleted
    <2>1. seen' \in [Names -> [serial : Serials, was : Contents] \cup {Absent}]
      BY <1>c, <1>6 DEF Deleted
    <2>2. spent' \in Nat
      BY <1>c, <1>6 DEF Deleted, Trying
    <2>3. QED
      BY <1>a, <1>c, <1>6, <2>1, <2>2 DEF Deleted, HangUp
  <1>7. CASE OpenProject \/ StartPrune
    BY <1>a, <1>c, <1>7, KumaAssumption DEF OpenProject, StartPrune, Ready, StartCall
  <1>8. CASE Unusable \/ ProjectDone
    <2>1. app \in 1 .. Len(Projects)
      BY <1>b, <1>c, <1>8 DEF Unusable, ProjectDone, PlaceInv, InProject
    <2>2. QED
      BY <1>a, <1>b, <1>c, <1>8, <2>1
         DEF Unusable, ProjectDone, Ready, ToNextProject, HangUp
  <1>9. CASE Declare \/ SettingRaises
    <2>1. Projects[app][spec] \in Names
      BY <1>b, <1>c, <1>9, DeclaredNames DEF Declare, SettingRaises, PlaceInv, InProject
    <2>2. CASE SettingRaises
      BY <1>a, <1>c, <2>1, <2>2 DEF SettingRaises, Ready, End, HangUp
    <2>3. CASE Declare /\ over
      BY <1>a, <1>c, <2>1, <2>3 DEF Declare, Ready, End, HangUp
    <2>4. CASE Declare /\ ~over
      BY <1>a, <1>c, <2>1, <2>4 DEF Declare, Ready
    <2>5. QED
      BY <1>9, <2>2, <2>3, <2>4
  <1>10. CASE Compare
    <2> DEFINE n == Projects[app][spec]
    <2>1. n \in Names
      BY <1>b, <1>c, <1>10, DeclaredNames DEF Compare, PlaceInv, InProject
    <2>2. AddCall(n) \in Writes /\ (seen[n] # Absent => EditCall(n) \in Writes)
      BY <1>c, <2>1, Calls
    <2>3. QED
      BY <1>a, <1>c, <1>10, <2>2, KumaAssumption
         DEF Compare, Ready, StartCall, Synced, HangUp
  <1>11. CASE Finish \/ PruneDone
    BY <1>a, <1>c, <1>11 DEF Finish, PruneDone, Ready, End, HangUp
  <1>12. CASE PruneNext
    <2>1. PICK n \in Stale :
            IF over THEN End("budget")
            ELSE StartCall(DeleteCall(n)) /\ UNCHANGED <<place, link, exit>>
      BY <1>12 DEF PruneNext
    <2>2. DeleteCall(n) \in Writes
      BY <1>c, Calls DEF Stale
    <2>3. QED
      BY <1>a, <1>c, <1>12, <2>1, <2>2, KumaAssumption
         DEF PruneNext, Ready, StartCall, End, HangUp
  <1>13. CASE BudgetRunsOut
    BY <1>a, <1>c, <1>13 DEF BudgetRunsOut
  <1>14. CASE CarriedOutLate
    BY <1>a, <1>c, <1>14 DEF CarriedOutLate
  <1>15. CASE UNCHANGED vars
    BY <1>c, <1>15 DEF vars
  <1>16. QED
    BY <1>1, <1>2, <1>3, <1>4, <1>5, <1>6, <1>7, <1>8, <1>9, <1>10, <1>11, <1>12,
       <1>13, <1>14, <1>15 DEF Next, Run, Failing

\* Where the run is, one action at a time.
LEMMA NextPlace ==
  ASSUME KumaInv, [Next]_vars
  PROVE  PlaceInv'
  <1> USE DEF PlaceInv, InProject, place, rpc, told, server
  <1>a. Len(Projects) \in Nat /\ DOMAIN Projects = 1 .. Len(Projects)
    BY KumaAssumption
  <1>b. PlaceInv /\ TypeOK /\ TypeOK'
    BY NextTypes DEF KumaInv
  <1>c. app \in Nat /\ spec \in Nat
    BY <1>b DEF TypeOK
  <1>d. app \in 1 .. Len(Projects) => Len(Projects[app]) \in Nat
    BY DeclaredNames
  <1>1. ASSUME NEW kind \in Kinds,
               \/ Retry(kind) \/ RetryOverBudget(kind) \/ ChannelsUnknown(kind)
               \/ Recover(kind) \/ ProjectFails(kind) \/ PruneFails(kind)
        PROVE  PlaceInv'
    <2>1. call # Idle
      BY <1>1 DEF Retry, RetryOverBudget, ChannelsUnknown, Recover, ProjectFails,
                  PruneFails, Unanswered, Trying
    <2>2. stage \notin {"login", "projects", "spec", "ended"}
      BY <1>b, <2>1
    <2>3. stage = "channels" => late' = {}
      BY <1>1, <1>b, CallKinds DEF Retry, RetryOverBudget, ChannelsUnknown, Recover,
                  ProjectFails, PruneFails, Unanswered
    <2>4. CASE Retry(kind)
      BY <1>b, <2>3, <2>4, <2>2 DEF Retry
    <2>5. CASE RetryOverBudget(kind) \/ PruneFails(kind)
      BY <1>b, <2>5 DEF RetryOverBudget, PruneFails, End, HangUp
    <2>6. CASE ChannelsUnknown(kind)
      BY <1>b, <2>6 DEF ChannelsUnknown, HangUp, TypeOK
    <2>7. CASE Recover(kind)
      BY <1>b, <2>7 DEF Recover, StartCall, TypeOK
    <2>8. CASE ProjectFails(kind)
      BY <1>b, <2>8, <2>2 DEF ProjectFails, ToNextProject, HangUp, TypeOK
    <2>9. QED
      BY <1>1, <2>4, <2>5, <2>6, <2>7, <2>8
  <1>2. CASE FirstLogin \/ Reconnect \/ LoginFails
    BY <1>b, <1>2 DEF FirstLogin, Reconnect, LoginFails, StartCall, End, HangUp
  <1>3. CASE ChannelsListed
    BY <1>b, <1>3 DEF ChannelsListed, HangUp
  <1>4. CASE MonitorsListed
    BY <1>a, <1>b, <1>c, <1>d, <1>4, CallKinds DEF MonitorsListed, HangUp, Trying, TypeOK
  <1>5. CASE Written
    BY <1>b, <1>c, <1>d, <1>5, CallKinds DEF Written, Synced, HangUp, TypeOK
  <1>6. CASE Deleted
    BY <1>b, <1>6, CallKinds DEF Deleted, HangUp
  <1>7. CASE OpenProject \/ StartPrune
    BY <1>a, <1>b, <1>7 DEF OpenProject, StartPrune, MayPrune, Ready, StartCall, TypeOK
  <1>8. CASE Unusable \/ ProjectDone
    BY <1>b, <1>8 DEF Unusable, ProjectDone, Ready, ToNextProject, HangUp
  <1>9. CASE Declare \/ SettingRaises
    <2>1. CASE SettingRaises \/ (Declare /\ over)
      BY <1>b, <2>1 DEF Declare, SettingRaises, Ready, End, HangUp
    <2>2. CASE Declare /\ ~over
      BY <1>b, <2>2, CallKinds DEF Declare, Ready
    <2>3. QED
      BY <1>9, <2>1, <2>2
  <1>10. CASE Compare
    <2> DEFINE n == Projects[app][spec]
    <2>1. n \in Names
      BY <1>a, <1>b, <1>c, <1>10, DeclaredNames DEF Compare, TypeOK
    <2>2. /\ AddCall(n) # Read /\ AddCall(n).op = "add" /\ AddCall(n).name = n
          /\ seen[n] # Absent =>
               EditCall(n) # Read /\ EditCall(n).op = "edit" /\ EditCall(n).name = n
      BY <1>b, <2>1, Calls, CallKinds
    <2>3. CASE seen[n] = Absent /\ StartCall(AddCall(n)) /\ UNCHANGED <<place, link, told, exit>>
      BY <1>b, <1>10, <2>2, <2>3 DEF Compare, StartCall, Ready
    <2>4. CASE seen[n] # Absent /\ StartCall(EditCall(n)) /\ UNCHANGED <<place, link, told, exit>>
      BY <1>b, <1>10, <2>2, <2>4 DEF Compare, StartCall, Ready
    <2>5. CASE Synced
      BY <1>b, <1>c, <1>d, <1>10, <2>5 DEF Compare, Ready, Synced, HangUp, TypeOK
    <2>6. QED
      BY <1>10, <2>3, <2>4, <2>5 DEF Compare
  <1>11. CASE Finish \/ PruneDone
    BY <1>a, <1>b, <1>11 DEF Finish, PruneDone, Ready, End, HangUp, TypeOK
  <1>12. CASE PruneNext
    <2>1. PICK n \in Stale :
            IF over THEN End("budget")
            ELSE StartCall(DeleteCall(n)) /\ UNCHANGED <<place, link, exit>>
      BY <1>12 DEF PruneNext
    <2>2. DeleteCall(n) # Read
      BY <1>b, Calls, CallKinds DEF Stale
    <2>3. CASE over
      BY <1>b, <1>12, <2>1, <2>3 DEF PruneNext, Ready, End, HangUp
    <2>4. CASE ~over
      BY <1>b, <1>12, <2>1, <2>2, <2>4 DEF PruneNext, Ready, StartCall
    <2>5. QED
      BY <2>3, <2>4
  <1>13. CASE BudgetRunsOut \/ UNCHANGED vars
    BY <1>b, <1>13 DEF BudgetRunsOut, vars
  <1>14. CASE CarriedOutLate
    BY <1>b, <1>14 DEF CarriedOutLate
  <1>15. QED
    BY <1>1, <1>2, <1>3, <1>4, <1>5, <1>6, <1>7, <1>8, <1>9, <1>10, <1>11, <1>12,
       <1>13, <1>14 DEF Next, Run, Failing

\* The names of the projects passed are declared, one action at a time.
LEMMA NextDeclared ==
  ASSUME KumaInv, [Next]_vars
  PROVE  DeclaredInv'
  <1> USE DEF DeclaredInv, InProject, place, rpc, told, server
  <1>a. Len(Projects) \in Nat
    BY KumaAssumption
  <1>b. DeclaredInv /\ PlaceInv
    BY DEF KumaInv
  <1>c. app \in Nat /\ spec \in Nat
    BY DEF KumaInv, TypeOK
  <1>1. ASSUME NEW kind \in Kinds,
               \/ Retry(kind) \/ RetryOverBudget(kind) \/ ChannelsUnknown(kind)
               \/ Recover(kind) \/ ProjectFails(kind) \/ PruneFails(kind)
        PROVE  DeclaredInv'
    <2>1. CASE Retry(kind)
      BY <1>b, <2>1 DEF Retry
    <2>2. CASE RetryOverBudget(kind) \/ PruneFails(kind)
      BY <1>b, <2>2 DEF RetryOverBudget, PruneFails, End
    <2>3. CASE ChannelsUnknown(kind)
      BY <1>b, <2>3 DEF ChannelsUnknown
    <2>4. CASE Recover(kind)
      BY <1>b, <2>4 DEF Recover
    <2>5. CASE ProjectFails(kind)
      BY <1>b, <1>c, <2>5 DEF ProjectFails, ToNextProject
    <2>6. QED
      BY <1>1, <2>1, <2>2, <2>3, <2>4, <2>5
  <1>2. CASE FirstLogin \/ Reconnect \/ LoginFails \/ ChannelsListed
    BY <1>b, <1>2 DEF FirstLogin, Reconnect, LoginFails, End, ChannelsListed
  <1>3. CASE MonitorsListed
    BY <1>b, <1>3 DEF MonitorsListed
  <1>4. CASE Written \/ (Compare /\ Synced)
    <2>1. stage = "sync" /\ Synced
      BY <1>4 DEF Written, Compare
    <2>2. stage' = "spec" /\ spec' = spec + 1 /\ UNCHANGED <<app, declared, failed>>
      BY <2>1 DEF Synced
    <2>3. QED
      BY <1>b, <1>c, <2>1, <2>2
  <1>5. CASE Deleted \/ (Compare /\ UNCHANGED <<place, told>>)
    BY <1>b, <1>5 DEF Deleted
  <1>6. CASE OpenProject \/ StartPrune \/ Finish \/ PruneDone
    BY <1>b, <1>6 DEF OpenProject, StartPrune, Finish, PruneDone, End
  <1>7. CASE Unusable
    BY <1>b, <1>c, <1>7 DEF Unusable, ToNextProject
  <1>8. CASE ProjectDone
    <2>1. NamesOf(app) \subseteq declared
      <3>1. app \in 1 .. Len(Projects) /\ spec > Len(Projects[app])
        BY <1>b, <1>8 DEF ProjectDone, PlaceInv, KumaInv, TypeOK
      <3>2. \A j \in 1 .. Len(Projects[app]) : j \in 1 .. spec - 1
        BY <1>c, <3>1, DeclaredNames
      <3>3. QED
        BY <1>b, <1>8, <3>1, <3>2, DeclaredNames DEF ProjectDone
    <2>2. QED
      BY <1>b, <1>c, <1>8, <2>1 DEF ProjectDone, ToNextProject
  <1>9. CASE Declare \/ SettingRaises
    <2>1. CASE SettingRaises \/ (Declare /\ over)
      BY <1>b, <2>1 DEF Declare, SettingRaises, End
    <2>2. CASE Declare /\ ~over
      BY <1>b, <1>c, <2>2 DEF Declare
    <2>3. QED
      BY <1>9, <2>1, <2>2
  <1>10. CASE PruneNext
    BY <1>b, <1>10 DEF PruneNext, End
  <1>11. CASE BudgetRunsOut \/ CarriedOutLate \/ UNCHANGED vars
    BY <1>b, <1>11 DEF BudgetRunsOut, CarriedOutLate, vars
  <1>12. QED
    BY <1>1, <1>2, <1>3, <1>4, <1>5, <1>6, <1>7, <1>8, <1>9, <1>10, <1>11
       DEF Next, Run, Failing, Compare

\* When everything has been passed without a failure, everything is declared.
LEMMA AllDeclared ==
  ASSUME KumaInv, stage = "prune"
  PROVE  AllNames \subseteq declared
  <1>1. ASSUME NEW k \in 1 .. Len(Projects)
        PROVE  NamesOf(k) \subseteq declared
    <2>1. app = Len(Projects) + 1 /\ failed = {}
      BY DEF KumaInv, PlaceInv
    <2>2. k \in 1 .. app - 1
      BY <2>1, KumaAssumption
    <2>3. QED
      BY <2>1, <2>2 DEF KumaInv, DeclaredInv
  <1>2. DOMAIN Projects = 1 .. Len(Projects)
    BY KumaAssumption
  <1>3. QED
    BY <1>1, <1>2 DEF AllNames

\* What a write is meant to do stays so while nothing is learnt about channels.
LEMMA StaysMeant ==
  ASSUME UNCHANGED <<live, resolved>>, NEW c, Meant(c)
  PROVE  Meant(c)'
  BY DEF Meant, Wanted, Protected

\* Only meant writes are under way or late: a step keeps them, or starts one.
LEMMA NextMeant ==
  ASSUME KumaInv, [Next]_vars
  PROVE  MeantInv'
  <1> USE DEF place, rpc, told, server
  <1>a. /\ call \in Writes => Meant(call)
        /\ \A c \in late : Meant(c)
        /\ TypeOK /\ PlaceInv
    BY DEF KumaInv, MeantInv
  <1>1. CASE stage = "channels"
    <2>1. call = Read /\ late = {}
      BY <1>1, <1>a DEF PlaceInv
    <2>2. late' = {} /\ call' \in {Read, Idle}
      <3>1. ASSUME NEW kind \in Kinds,
                   \/ Retry(kind) \/ RetryOverBudget(kind) \/ ChannelsUnknown(kind)
                   \/ Recover(kind) \/ ProjectFails(kind) \/ PruneFails(kind)
            PROVE  late' = {} /\ call' \in {Read, Idle}
        BY <3>1, <1>1, <2>1, CallKinds
           DEF Retry, RetryOverBudget, ChannelsUnknown, Recover, ProjectFails,
               PruneFails, Unanswered, End, HangUp
      <3>2. CASE FirstLogin \/ Reconnect \/ LoginFails \/ ChannelsListed
                 \/ BudgetRunsOut \/ UNCHANGED vars
        BY <3>2, <1>1, <2>1
           DEF FirstLogin, Reconnect, LoginFails, ChannelsListed, End, HangUp,
               BudgetRunsOut, vars
      <3>3. ~CarriedOutLate
        BY <2>1 DEF CarriedOutLate
      <3>4. QED
        BY <1>1, <3>1, <3>2, <3>3
           DEF Next, Run, Failing, MonitorsListed, Written, Deleted, OpenProject,
               Unusable, Declare, SettingRaises, Compare, ProjectDone,
               StartPrune, Finish,
               PruneNext, PruneDone
    <2>3. QED
      BY <2>2, CallKinds DEF MeantInv
  <1>2. CASE stage # "channels"
    <2>1. UNCHANGED <<live, resolved>>
      BY <1>2, ServerMoves, Settled
    <2>2. late' \subseteq late \cup ({call} \cap Writes)
      <3>1. ASSUME NEW kind \in Kinds, Unanswered(kind)
            PROVE  late' \subseteq late \cup ({call} \cap Writes)
        BY <3>1 DEF Unanswered
      <3>2. CASE Failing
        BY <3>1, <3>2 DEF Failing, Retry, RetryOverBudget, ChannelsUnknown, Recover,
                          ProjectFails, PruneFails
      <3>3. CASE Written \/ Deleted \/ CarriedOutLate \/ UNCHANGED vars
        BY <3>3 DEF Written, Deleted, CarriedOutLate, vars
      <3>4. CASE FirstLogin \/ Reconnect \/ LoginFails \/ ChannelsListed
                 \/ MonitorsListed \/ BudgetRunsOut
        BY <3>4 DEF FirstLogin, Reconnect, LoginFails, ChannelsListed,
                    MonitorsListed, BudgetRunsOut
      <3>5. CASE OpenProject \/ Unusable \/ Declare \/ SettingRaises
             \/ Compare \/ ProjectDone
                 \/ StartPrune \/ Finish \/ PruneNext \/ PruneDone
        BY <3>5 DEF OpenProject, Unusable, Declare, SettingRaises, Compare, ProjectDone,
                    StartPrune, Finish, PruneNext, PruneDone, Ready
      <3>6. QED
        BY <3>2, <3>3, <3>4, <3>5 DEF Next, Run
    <2>3. \A c \in late' : Meant(c)'
      BY <1>a, <2>1, <2>2, StaysMeant
    <2>4. call' \in {call, Idle, Read} \/ (call' \in Writes /\ Meant(call'))
      <3>1. CASE Failing
        BY <3>1 DEF Failing, Retry, RetryOverBudget, ChannelsUnknown, Recover,
                    ProjectFails, PruneFails, End, StartCall, ToNextProject, HangUp
      <3>2. CASE FirstLogin \/ Reconnect \/ LoginFails \/ ChannelsListed
                 \/ MonitorsListed \/ Written \/ Deleted \/ BudgetRunsOut
                 \/ CarriedOutLate \/ UNCHANGED vars
        BY <3>2 DEF FirstLogin, Reconnect, LoginFails, ChannelsListed,
                    MonitorsListed, Written, Deleted, BudgetRunsOut, CarriedOutLate,
                    vars, End, StartCall, Synced, HangUp
      <3>3. CASE OpenProject \/ Unusable \/ Declare \/ SettingRaises \/ ProjectDone
                 \/ StartPrune \/ Finish \/ PruneDone
        BY <3>3 DEF OpenProject, Unusable, Declare, SettingRaises, ProjectDone,
                    StartPrune, Finish,
                    PruneDone, End, StartCall, ToNextProject, HangUp
      <3>4. CASE Compare
        <4> DEFINE n == Projects[app][spec]
        <4>1. n \in AllNames /\ n \in Names
          <5>1. app \in 1 .. Len(Projects) /\ spec \in 1 .. Len(Projects[app])
            BY <1>a, <3>4, KumaAssumption, DeclaredNames
               DEF Compare, PlaceInv, InProject, TypeOK
          <5>2. QED
            BY <5>1, DeclaredNames
        <4>2. /\ AddCall(n) \in Writes /\ Meant(AddCall(n))
              /\ seen[n] # Absent => EditCall(n) \in Writes /\ Meant(EditCall(n))
          BY <1>a, <4>1, Calls
        <4>3. QED
          BY <3>4, <4>2 DEF Compare, StartCall, Synced, HangUp
      <3>5. CASE PruneNext
        <4>1. PICK n \in Stale :
                IF over THEN End("budget")
                ELSE StartCall(DeleteCall(n)) /\ UNCHANGED <<place, link, exit>>
          BY <3>5 DEF PruneNext
        <4>2. n \in Names /\ n \notin AllNames /\ seen[n] # Absent
          BY <3>5, AllDeclared DEF Stale, PruneNext
        <4>3. DeleteCall(n) \in Writes /\ Meant(DeleteCall(n))
          BY <1>a, <4>2, Calls
        <4>4. QED
          BY <4>1, <4>3 DEF StartCall, End, HangUp
      <3>6. QED
        BY <3>1, <3>2, <3>3, <3>4, <3>5 DEF Next, Run
    <2>5. call' \in Writes => Meant(call)'
      BY <1>a, <2>1, <2>4, CallKinds DEF Meant, Wanted, Protected
    <2>6. QED
      BY <2>3, <2>5 DEF MeantInv
  <1>3. QED
    BY <1>1, <1>2

\* A write that is carried out as declared brings its monitor in line.
LEMMA WriteInSync ==
  ASSUME KumaInv, NEW c \in Writes, Meant(c), c.op # "delete", CarryOut(c),
         UNCHANGED <<live, resolved>>
  PROVE  InSync(c.name)'
  <1>1. PICK i \in Monitors :
           /\ i[1] = c.name
           /\ Result(c, monitors[i]) \in Contents
           /\ monitors' = [monitors EXCEPT ![i] = Result(c, monitors[i])]
    BY Carried, CallKinds DEF KumaInv
  <1>2. PICK s \in Serials : i = <<c.name, s>>
    BY <1>1 DEF Monitors
  <1>3. monitors'[<<c.name, s>>] = Result(c, monitors[i])
    BY <1>1, <1>2 DEF KumaInv, TypeOK
  <1>4. /\ Result(c, monitors[i]).ok
        /\ c.assign => Result(c, monitors[i]).channels = c.channels
    BY DEF Result
  <1>5. /\ ~Protected(c.name) => c.assign
        /\ c.channels = Wanted(c.name)
    BY DEF Meant
  <1>6. Wanted(c.name)' = Wanted(c.name) /\ Protected(c.name)' = Protected(c.name)
    BY DEF Wanted, Protected
  <1>7. QED
    BY <1>1, <1>3, <1>4, <1>5, <1>6, KumaAssumption DEF InSync

\* A monitor that was read and found unchanged is in line.
LEMMA ListInSync ==
  ASSUME KumaInv, List, UNCHANGED <<monitors, live, resolved>>,
         NEW n \in AllNames, seen'[n] # Absent
  PROVE  Changed(n, seen[n].was)' \/ InSync(n)'
  <1>1. PICK pick \in [Names -> Serials] :
          seen' = [m \in Names |->
                     IF monitors[<<m, pick[m]>>] = Absent THEN Absent
                     ELSE [serial |-> pick[m], was |-> monitors[<<m, pick[m]>>]]]
    BY DEF List
  <1>2. /\ pick[n] \in Serials
        /\ monitors[<<n, pick[n]>>] # Absent
        /\ seen'[n].was = monitors[<<n, pick[n]>>]
    BY <1>1, DeclaredNames
  <1>3. QED
    BY <1>2 DEF Changed, InSync

\* What the run takes to be in line stays so: only a listing tells it more.
LEMMA NextSeen ==
  ASSUME KumaInv, [Next]_vars, stage # "channels"
  PROVE  SeenInv'
  <1>a. UNCHANGED <<live, resolved>> /\ ServerMove
    BY ServerMoves, Settled
  <1>1. CASE MonitorsListed
    <2>1. List /\ UNCHANGED <<monitors, live, resolved>>
      BY <1>1 DEF MonitorsListed, server
    <2>2. QED
      BY <2>1, ListInSync DEF SeenInv
  <1>2. ASSUME \A n \in AllNames : seen'[n] \in {Absent, seen[n]}
        PROVE  SeenInv'
    <2> SUFFICES ASSUME NEW n \in AllNames, seen'[n] # Absent
                 PROVE  Changed(n, seen[n].was)' \/ InSync(n)'
      BY DEF SeenInv
    <2>1. seen'[n] = seen[n]
      BY <1>2
    <2>2. Changed(n, seen[n].was)' = Changed(n, seen[n].was)
      BY <1>a, <2>1 DEF Changed, Protected, Wanted
    <2>3. InSync(n) => InSync(n)'
      BY <1>a, StaysInSync
    <2>4. Changed(n, seen[n].was) \/ InSync(n)
      BY <2>1 DEF KumaInv, SeenInv
    <2>5. QED
      BY <2>2, <2>3, <2>4
  <1>3. CASE Deleted
    <2>1. \A n \in AllNames : seen'[n] \in {Absent, seen[n]}
      BY <1>3, DeclaredNames DEF Deleted, KumaInv, TypeOK
    <2>2. QED
      BY <1>2, <2>1
  <1>4. ASSUME seen' = seen PROVE SeenInv'
    BY <1>2, <1>4
  <1>5. CASE Failing
    BY <1>4, <1>5 DEF Failing, Retry, RetryOverBudget, ChannelsUnknown, Recover,
                      ProjectFails, PruneFails, told
  <1>6. CASE FirstLogin \/ Reconnect \/ LoginFails \/ ChannelsListed \/ Written
             \/ BudgetRunsOut \/ CarriedOutLate \/ UNCHANGED vars
    BY <1>4, <1>6 DEF FirstLogin, Reconnect, LoginFails, ChannelsListed, Written,
                      Synced, BudgetRunsOut, CarriedOutLate, vars, told
  <1>7. CASE OpenProject \/ Unusable \/ Declare \/ SettingRaises
             \/ Compare \/ ProjectDone
             \/ StartPrune \/ Finish \/ PruneNext \/ PruneDone
    BY <1>4, <1>7 DEF OpenProject, Unusable, Declare, SettingRaises, Compare, ProjectDone,
                      StartPrune, Finish, PruneNext, PruneDone, Synced, told
  <1>8. QED
    BY <1>1, <1>3, <1>5, <1>6, <1>7 DEF Next, Run

\* A step passes no declaration, or the one it has just brought in line.
LEMMA NextPassed ==
  ASSUME KumaInv, [Next]_vars, stage # "channels"
  PROVE  PassedInv'
  <1> USE DEF InProject, place, told
  <1>a. UNCHANGED <<live, resolved>> /\ ServerMove
    BY ServerMoves, Settled
  <1>b. \A n \in AllNames : InSync(n) => InSync(n)'
    BY <1>a, StaysInSync
  <1>c. Len(Projects) \in Nat /\ app \in 1 .. Len(Projects) + 1 /\ spec \in Nat
    BY KumaAssumption DEF KumaInv, TypeOK
  <1>d. ASSUME stage \in InProject
        PROVE  /\ app \in 1 .. Len(Projects)
               /\ Len(Projects[app]) \in Nat
               /\ spec \in 1 .. Len(Projects[app]) + 1
               /\ stage = "sync" => Projects[app][spec] \in AllNames
    <2>1. /\ app \in 1 .. Len(Projects)
          /\ spec \in 1 .. Len(Projects[app]) + 1
          /\ stage = "sync" => spec <= Len(Projects[app])
      BY <1>c, <1>d DEF KumaInv, PlaceInv
    <2>2. Len(Projects[app]) \in Nat
      BY <2>1, DeclaredNames
    <2>3. stage = "sync" => spec \in 1 .. Len(Projects[app])
      BY <2>1, <2>2
    <2>4. QED
      BY <2>1, <2>2, <2>3, DeclaredNames
  <1>e. ASSUME \A n \in PassedNames' : n \in PassedNames \/ InSync(n)'
        PROVE  PassedInv'
    <2>1. ASSUME NEW n \in PassedNames' PROVE InSync(n)'
      <3>1. n \in AllNames
        BY DEF PassedNames
      <3>2. n \in PassedNames => InSync(n)
        BY DEF KumaInv, PassedInv
      <3>3. QED
        BY <1>b, <1>e, <3>1, <3>2
    <2>2. QED
      BY <2>1 DEF PassedInv
  <1> USE DEF PassedNames
  <1>1. CASE stage' \notin InProject /\ app' = app /\ failed' = failed
    BY <1>e, <1>1
  <1>2. CASE /\ UNCHANGED <<app, spec, failed>>
             /\ stage' \in InProject => stage \in InProject
    BY <1>e, <1>2
  <1>3. CASE stage' = "spec" /\ spec' = 1 /\ UNCHANGED <<app, failed>>
    BY <1>e, <1>3
  <1>4. CASE stage' = "projects" /\ app' = app + 1 /\ failed' = failed \cup {app}
    <2>1. \A n \in PassedNames' : n \in PassedNames
      BY <1>c, <1>4
    <2>2. QED
      BY <1>e, <2>1
  <1>5. CASE ProjectDone
    <2>1. /\ stage = "spec" /\ spec > Len(Projects[app])
          /\ stage' = "projects" /\ app' = app + 1 /\ failed' = failed
      BY <1>5 DEF ProjectDone, ToNextProject
    <2>2. NamesOf(app) \subseteq PassedNames
      <3>1. \A j \in 1 .. Len(Projects[app]) : j \in 1 .. spec - 1
        BY <1>c, <1>d, <2>1
      <3>2. /\ NamesOf(app) \subseteq AllNames
            /\ NamesOf(app) = {Projects[app][j] : j \in 1 .. Len(Projects[app])}
        BY <1>d, <2>1, DeclaredNames
      <3>3. QED
        BY <2>1, <3>1, <3>2
    <2>3. \A n \in PassedNames' : n \in PassedNames
      BY <1>c, <2>1, <2>2
    <2>4. QED
      BY <1>e, <2>3
  <1>6. ASSUME NEW n \in AllNames, stage = "sync", Synced, n = Projects[app][spec],
               InSync(n)'
        PROVE  PassedInv'
    <2>1. stage' = "spec" /\ spec' = spec + 1 /\ UNCHANGED <<app, failed>>
      BY <1>6 DEF Synced
    <2>2. \A m \in PassedNames' : m \in PassedNames \/ m = n
      BY <1>c, <1>6, <2>1
    <2>3. QED
      BY <1>e, <1>6, <2>2
  <1>7. CASE Written
    <2>1. PICK c : c = call
      OBVIOUS
    <2>2. /\ c \in Writes /\ Meant(c) /\ c.op # "delete"
          /\ c.name = Projects[app][spec]
      BY <1>7, <2>1, Underway, CallKinds DEF Written, Trying, KumaInv, PlaceInv
    <2>3. InSync(c.name)'
      BY <1>a, <1>7, <2>1, <2>2, WriteInSync DEF Written
    <2>4. c.name \in AllNames
      BY <2>2 DEF Meant
    <2>5. QED
      BY <1>6, <1>7, <2>2, <2>3, <2>4 DEF Written
  <1>8. CASE Compare
    <2>1. PICK n \in AllNames : n = Projects[app][spec]
      BY <1>d, <1>8 DEF Compare
    <2>2. CASE seen[n] # Absent /\ ~Changed(n, seen[n].was) /\ Synced
      <3>1. InSync(n)'
        BY <1>b, <2>2 DEF KumaInv, SeenInv
      <3>2. QED
        BY <1>6, <1>8, <2>1, <2>2, <3>1 DEF Compare
    <2>3. CASE UNCHANGED <<place, told>>
      BY <1>2, <2>3
    <2>4. QED
      BY <1>8, <2>1, <2>2, <2>3 DEF Compare
  <1>9. CASE Failing
    <2>1. PICK kind \in Kinds :
            \/ Retry(kind) \/ RetryOverBudget(kind) \/ ChannelsUnknown(kind)
            \/ Recover(kind) \/ ProjectFails(kind) \/ PruneFails(kind)
      BY <1>9 DEF Failing
    <2>2. CASE Retry(kind)
      BY <1>2, <2>2 DEF Retry
    <2>3. CASE RetryOverBudget(kind) \/ PruneFails(kind)
      BY <1>1, <2>3 DEF RetryOverBudget, PruneFails, End
    <2>4. CASE ChannelsUnknown(kind)
      BY <2>4 DEF ChannelsUnknown
    <2>5. CASE Recover(kind)
      BY <1>2, <2>5 DEF Recover
    <2>6. CASE ProjectFails(kind)
      BY <1>4, <2>6 DEF ProjectFails, ToNextProject
    <2>7. QED
      BY <2>1, <2>2, <2>3, <2>4, <2>5, <2>6
  <1>10. CASE FirstLogin \/ Reconnect \/ LoginFails \/ ChannelsListed
    BY <1>1, <1>2, <1>10 DEF FirstLogin, Reconnect, LoginFails, ChannelsListed, End
  <1>11. CASE MonitorsListed
    BY <1>1, <1>2, <1>3, <1>11 DEF MonitorsListed
  <1>12. CASE Deleted \/ OpenProject \/ StartPrune \/ Finish \/ PruneDone
    BY <1>1, <1>2, <1>12 DEF Deleted, OpenProject, StartPrune, Finish, PruneDone, End
  <1>13. CASE Unusable
    BY <1>4, <1>13 DEF Unusable, ToNextProject
  <1>14. CASE Declare \/ SettingRaises
    BY <1>1, <1>2, <1>14 DEF Declare, SettingRaises, End
  <1>15. CASE PruneNext
    BY <1>1, <1>2, <1>15 DEF PruneNext, End
  <1>16. CASE BudgetRunsOut \/ CarriedOutLate \/ UNCHANGED vars
    BY <1>2, <1>16 DEF BudgetRunsOut, CarriedOutLate, vars
  <1>17. QED
    BY <1>5, <1>7, <1>8, <1>9, <1>10, <1>11, <1>12, <1>13, <1>14, <1>15, <1>16
       DEF Next, Run

\* The channels are listed, or not, before anything is read, passed or written.
LEMMA FirstStages ==
  ASSUME KumaInv, [Next]_vars, stage = "channels"
  PROVE  SeenInv' /\ PassedInv'
  <1> USE DEF place, rpc, told
  <1>1. /\ app = 1
        /\ \A n \in Names : seen[n] = Absent
    BY DEF KumaInv, PlaceInv
  <1>2. app' = 1 /\ stage' \notin InProject /\ seen' = seen
    <2>1. CASE Failing
      BY <2>1, <1>1
         DEF Failing, Retry, RetryOverBudget, ChannelsUnknown, Recover,
             ProjectFails, PruneFails, End, InProject
    <2>2. CASE FirstLogin \/ Reconnect \/ LoginFails \/ ChannelsListed
               \/ BudgetRunsOut \/ CarriedOutLate \/ UNCHANGED vars
      BY <2>2, <1>1
         DEF FirstLogin, Reconnect, LoginFails, ChannelsListed, End,
             BudgetRunsOut, CarriedOutLate, vars, InProject
    <2>3. QED
      BY <2>1, <2>2
         DEF Next, Run, MonitorsListed, Written, Deleted, OpenProject, Unusable,
             Declare, SettingRaises, Compare, ProjectDone, StartPrune, Finish,
             PruneNext, PruneDone
  <1>3. QED
    BY <1>1, <1>2, DeclaredNames DEF SeenInv, PassedInv, PassedNames

\* Every step, and every stutter, keeps the invariant.
LEMMA NextKumaInv == KumaInv /\ [Next]_vars => KumaInv'
  <1> SUFFICES ASSUME KumaInv, [Next]_vars PROVE KumaInv'
    OBVIOUS
  <1>1. TypeOK' /\ PlaceInv' /\ DeclaredInv' /\ MeantInv'
    BY NextTypes, NextPlace, NextDeclared, NextMeant
  <1>2. SeenInv' /\ PassedInv'
    BY FirstStages, NextSeen, NextPassed
  <1>3. QED
    BY <1>1, <1>2 DEF KumaInv

\* The invariant holds in every state of every run.
THEOREM Invariance == Spec => []KumaInv
  BY InitKumaInv, NextKumaInv, PTL DEF Spec

-----------------------------------------------------------------------------
(* Theorems.                                                               *)

\* Every variable keeps its type, however many attempts and projects.
THEOREM TypeCorrect == Spec => []TypeOK
  <1>1. KumaInv => TypeOK
    BY DEF KumaInv
  <1>2. QED
    BY <1>1, Invariance, PTL

\* Nothing a project declares is ever deleted, not even late.
THEOREM PrunesOnlyStale == Spec => PruneSafe
  <1>1. ASSUME KumaInv, [Next]_vars, NEW i \in Monitors,
               monitors[i] # Absent, monitors'[i] = Absent
        PROVE  i[1] \notin AllNames
    <2>1. PICK c \in Writes : Meant(c) /\ CarryOut(c)
      BY <1>1, ServerMoves DEF ServerMove
    <2>2. PICK j \in Monitors :
             /\ j[1] = c.name
             /\ c.op # "delete" => Result(c, monitors[j]) \in Contents
             /\ monitors' = [monitors EXCEPT ![j] = Result(c, monitors[j])]
      BY <1>1, <2>1, Carried, CallKinds DEF KumaInv
    <2>3. i = j /\ Result(c, monitors[j]) = Absent
      BY <1>1, <2>2 DEF KumaInv, TypeOK
    <2>4. c.op = "delete"
      BY <2>2, <2>3, KumaAssumption
    <2>5. QED
      BY <2>1, <2>2, <2>3, <2>4 DEF Meant
  <1>2. ASSUME KumaInv, [Next]_vars
        PROVE  [\A i \in Monitors :
                  monitors[i] # Absent /\ monitors'[i] = Absent
                  => i[1] \notin AllNames]_vars
    BY <1>1, <1>2
  <1>3. QED
    BY <1>2, Invariance, PTL DEF Spec, PruneSafe

\* Channels change only to what is declared and known to exist.
THEOREM ChannelsOnlyAsDeclared == Spec => ChannelsKept
  <1>1. ASSUME KumaInv, [Next]_vars, NEW i \in Monitors,
               monitors[i] # Absent, monitors'[i] # Absent,
               monitors'[i].channels # monitors[i].channels
        PROVE  /\ resolved
               /\ monitors'[i].channels = Wanted(i[1])
               /\ monitors'[i].channels = {} => Named[i[1]] = {}
    <2>1. PICK c \in Writes : Meant(c) /\ CarryOut(c)
      BY <1>1, ServerMoves DEF ServerMove
    <2>2. PICK j \in Monitors :
             /\ j[1] = c.name
             /\ c.op = "add" => monitors[j] = Absent
             /\ monitors' = [monitors EXCEPT ![j] = Result(c, monitors[j])]
      BY <1>1, <2>1, Carried, CallKinds DEF KumaInv
    <2>3. i = j /\ monitors'[i] = Result(c, monitors[i])
      BY <1>1, <2>2 DEF KumaInv, TypeOK
    <2>4. c.op = "edit"
      BY <1>1, <2>2, <2>3 DEF Result, Writes
    <2>5. c.assign /\ monitors'[i].channels = c.channels
      BY <1>1, <2>3, <2>4 DEF Result
    <2>6. ~Protected(i[1]) /\ monitors'[i].channels = Wanted(i[1])
      BY <2>1, <2>2, <2>3, <2>4, <2>5 DEF Meant
    <2>7. QED
      BY <2>6 DEF Protected
  <1>2. ASSUME KumaInv, [Next]_vars
        PROVE  [\A i \in Monitors :
                  /\ monitors[i] # Absent /\ monitors'[i] # Absent
                  /\ monitors'[i].channels # monitors[i].channels
                  => /\ resolved
                     /\ monitors'[i].channels = Wanted(i[1])
                     /\ monitors'[i].channels = {} => Named[i[1]] = {}]_vars
    BY <1>1, <1>2
  <1>3. QED
    BY <1>2, Invariance, PTL DEF Spec, ChannelsKept

\* The outcome a run reports is true of the server.
THEOREM OutcomeIsTrue == Spec => []ReportIsTrue
  <1>1. ASSUME KumaInv, exit \in {"ok", "failed"}
        PROVE  /\ exit = "ok" => failed = {}
               /\ \A k \in DOMAIN Projects \ failed : \A n \in NamesOf(k) : InSync(n)
    <2>1. app = Len(Projects) + 1 /\ (exit = "ok" => failed = {})
      BY <1>1 DEF KumaInv, PlaceInv
    <2>2. DOMAIN Projects = 1 .. app - 1 /\ DOMAIN Projects = 1 .. Len(Projects)
      BY <2>1, KumaAssumption
    <2>3. ASSUME NEW k \in DOMAIN Projects \ failed, NEW n \in NamesOf(k)
          PROVE  InSync(n)
      <3>1. n \in PassedNames
        BY <2>2, <2>3, DeclaredNames DEF PassedNames
      <3>2. QED
        BY <1>1, <3>1 DEF KumaInv, PassedInv
    <2>4. QED
      BY <2>1, <2>3
  <1>2. KumaInv => ReportIsTrue
    BY <1>1 DEF ReportIsTrue
  <1>3. QED
    BY <1>2, Invariance, PTL

-----------------------------------------------------------------------------
(* The budget. Once it is exceeded, what may still be tried goes down with *)
(* every attempt and never up again.                                       *)

\* The attempts that may still follow, from each place over the budget.
Left ==
    CASE stage \in {"login", "channels"} -> Len(Projects) + 2
      [] stage \in {"projects", "read"} -> (Len(Projects) + 2) - app
      [] stage = "spec" -> (Len(Projects) + 1) - app
      [] stage = "sync" -> (Len(Projects) + (IF recovery = 1 THEN 4 ELSE 2)) - app
      [] stage = "reread" -> (Len(Projects) + 3) - app
      [] stage = "list" -> 1
      [] stage = "prune" -> IF call = Idle THEN 0 ELSE 1
      [] stage = "ended" -> 0

BudgetInv ==
    /\ stage = "reread" => recovery = 2
    /\ ~over => spent = 0
    /\ over => spent + Left <= Len(Projects) + 3

\* What is left is a number, and never more than the allowance.
LEMMA LeftBounds ==
  ASSUME KumaInv
  PROVE  Left \in 0 .. Len(Projects) + 3
  <1>1. Len(Projects) \in Nat
    BY KumaAssumption
  <1>2. /\ stage \in Stages /\ app \in 1 .. Len(Projects) + 1
        /\ stage \in {"spec", "sync", "reread", "read"} => app <= Len(Projects)
    BY DEF KumaInv, TypeOK, PlaceInv, InProject
  <1>3. QED
    BY <1>1, <1>2 DEF Left, Stages

\* One action at a time: an attempt costs one, the rest costs nothing.
LEMMA NextBudget ==
  ASSUME KumaInv, BudgetInv, [Next]_vars
  PROVE  BudgetInv'
  <1> USE DEF BudgetInv, place, rpc, told, server
  <1>a. Len(Projects) \in Nat /\ spent \in Nat
    BY KumaAssumption DEF KumaInv, TypeOK
  <1>b. KumaInv' /\ Left \in 0 .. Len(Projects) + 3 /\ Left' \in 0 .. Len(Projects) + 3
    <2>1. KumaInv'
      BY NextKumaInv
    <2>2. Left' \in 0 .. Len(Projects) + 3
      <3>1. Len(Projects) \in Nat
        BY KumaAssumption
      <3>2. /\ stage' \in Stages /\ app' \in 1 .. Len(Projects) + 1
            /\ stage' \in {"spec", "sync", "reread", "read"} => app' <= Len(Projects)
        BY <2>1 DEF KumaInv, TypeOK, PlaceInv, InProject
      <3>3. QED
        BY <3>1, <3>2 DEF Left, Stages
    <2>3. QED
      BY <2>1, <2>2, LeftBounds
  <1>c. /\ app \in 1 .. Len(Projects) + 1 /\ recovery \in 1 .. 2 /\ over \in BOOLEAN
        /\ stage \in Stages
        /\ stage \in {"channels", "read", "reread", "list"} => call = Read
        /\ stage \in {"login", "projects", "spec", "ended"} => call = Idle
        /\ stage \in {"list", "prune"} => app = Len(Projects) + 1
        /\ stage \in {"login", "channels"} => app = 1
    BY DEF KumaInv, TypeOK, PlaceInv
  <1>1. CASE Failing
    <2>1. PICK kind \in Kinds :
              \/ Retry(kind) \/ RetryOverBudget(kind) \/ ChannelsUnknown(kind)
              \/ Recover(kind) \/ ProjectFails(kind) \/ PruneFails(kind)
      BY <1>1 DEF Failing
    <2>2. /\ over' = over /\ call # Idle
          /\ spent' = IF over THEN spent + 1 ELSE spent
      BY <2>1 DEF Retry, RetryOverBudget, ChannelsUnknown, Recover, ProjectFails,
                  PruneFails, Unanswered, Trying
    <2>3. CASE Retry(kind)
      BY <2>2, <2>3 DEF Retry
    <2>4. CASE RetryOverBudget(kind) \/ PruneFails(kind)
      <3>1. stage' = "ended"
        BY <2>4 DEF RetryOverBudget, PruneFails, End
      <3>2. Left' = 0
        BY <3>1 DEF Left
      <3>3. over => Left >= 1
        BY <1>a, <1>c, <2>2, LeftBounds DEF Left, KumaInv, TypeOK, PlaceInv, InProject, Stages
      <3>4. QED
        BY <1>a, <1>b, <2>2, <3>1, <3>2, <3>3
    <2>5. CASE ChannelsUnknown(kind)
      BY <1>a, <1>c, <2>2, <2>5 DEF ChannelsUnknown, Left
    <2>6. CASE Recover(kind)
      BY <1>a, <1>c, <2>2, <2>6 DEF Recover, Left
    <2>7. CASE ProjectFails(kind)
      BY <1>a, <1>c, <2>2, <2>7 DEF ProjectFails, ToNextProject, Left
    <2>8. QED
      BY <2>1, <2>3, <2>4, <2>5, <2>6, <2>7
  <1>2. CASE FirstLogin \/ Reconnect
    <2>1. /\ over' = over /\ spent' = spent /\ recovery' = recovery
          /\ stage' # stage => stage = "login" /\ stage' = "channels"
          /\ Left' = Left
      BY <1>2, <1>c DEF FirstLogin, Reconnect, StartCall, Left, Stages
    <2>2. QED
      BY <2>1
  <1>3. CASE LoginFails
    <2>1. over' = over /\ spent' = spent /\ stage' = "ended"
      BY <1>3 DEF LoginFails, End
    <2>2. Left' = 0
      BY <2>1 DEF Left
    <2>3. QED
      BY <2>1, <2>2, <1>a, <1>b
  <1>4. CASE ChannelsListed
    BY <1>4, <1>a, <1>c DEF ChannelsListed, Trying, Left
  <1>5. CASE MonitorsListed
    <2>1. /\ over' = over /\ app' = app /\ recovery' = recovery /\ call' = Idle
          /\ spent' = IF over THEN spent + 1 ELSE spent
          /\ \/ stage = "read" /\ stage' = "spec"
             \/ stage = "reread" /\ stage' = "sync"
             \/ stage = "list" /\ stage' = "prune"
      BY <1>5 DEF MonitorsListed, Trying, HangUp
    <2>2. QED
      BY <2>1, <1>a, <1>c DEF Left
  <1>6. CASE Written
    BY <1>6, <1>a, <1>c DEF Written, Synced, Trying, Left
  <1>7. CASE Deleted
    BY <1>7, <1>a, <1>c DEF Deleted, HangUp, Trying, Left
  <1>8. CASE OpenProject \/ StartPrune
    BY <1>8, <1>a, <1>c DEF OpenProject, StartPrune, Ready, Left
  <1>9. CASE Unusable \/ ProjectDone
    BY <1>9, <1>a, <1>c DEF Unusable, ProjectDone, ToNextProject, Ready, Left
  <1>10. CASE Declare \/ SettingRaises
    <2>1. CASE SettingRaises \/ (Declare /\ over)
      BY <2>1, <1>a, <1>b DEF Declare, SettingRaises, Ready, End, Left
    <2>2. CASE Declare /\ ~over
      BY <2>2 DEF Declare, Ready
    <2>3. QED
      BY <1>10, <2>1, <2>2
  <1>11. CASE Compare
    <2>1. /\ stage = "sync" /\ over' = over /\ spent' = spent
          /\ app' = app /\ recovery' = recovery /\ stage' \in {"sync", "spec"}
      BY <1>11 DEF Compare, Ready, Synced
    <2>2. QED
      BY <2>1, <1>a, <1>c DEF Left
  <1>12. CASE Finish \/ PruneDone
    BY <1>12, <1>a, <1>b DEF Finish, PruneDone, Ready, End, Left
  <1>13. CASE PruneNext
    <2>1. CASE over
      BY <2>1, <1>13, <1>a, <1>b DEF PruneNext, Ready, End, Left
    <2>2. CASE ~over
      BY <2>2, <1>13 DEF PruneNext, Ready
    <2>3. QED
      BY <2>1, <2>2
  <1>14. CASE BudgetRunsOut
    <2>1. spent = 0 /\ spent' = spent /\ stage' = stage /\ recovery' = recovery
      BY <1>14 DEF BudgetRunsOut
    <2>2. QED
      BY <2>1, <1>a, <1>b
  <1>15. CASE CarriedOutLate \/ UNCHANGED vars
    <2>1. UNCHANGED <<place, rpc, over, spent>>
      BY <1>15 DEF CarriedOutLate, vars
    <2>2. Left' = Left
      BY <2>1, <1>c DEF rpc, Left, Stages
    <2>3. QED
      BY <2>1, <2>2
  <1>16. QED
    BY <1>1, <1>2, <1>3, <1>4, <1>5, <1>6, <1>7, <1>8, <1>9, <1>10, <1>11, <1>12,
       <1>13, <1>14, <1>15 DEF Next, Run

\* Over its budget a run makes a bounded number of attempts, whatever the
\* number of monitors and of attempts at a call: what is left of the allowance
\* goes down with every attempt.
THEOREM AbortsPromptly == Spec => []AbortIsPrompt
  <1>1. Init => BudgetInv
    BY DEF Init, BudgetInv
  <1>2. BudgetInv /\ KumaInv => AbortIsPrompt
    <2> SUFFICES ASSUME BudgetInv, KumaInv PROVE AbortIsPrompt
      OBVIOUS
    <2>1. Len(Projects) \in Nat /\ spent \in Nat /\ over \in BOOLEAN
      BY KumaAssumption DEF KumaInv, TypeOK
    <2>2. QED
      BY <2>1, LeftBounds DEF BudgetInv, AbortIsPrompt
  <1>3. KumaInv /\ BudgetInv /\ [Next]_vars => BudgetInv'
    BY NextBudget
  <1>4. QED
    BY <1>1, <1>2, <1>3, Invariance, PTL DEF Spec
=============================================================================
