---------------------------- MODULE DeviceRegistry ----------------------------
(***************************************************************************)
(* control-devices.json: the paired phones.  Pairing adds a device, every  *)
(* authenticated request looks its token up and saves the time it was      *)
(* seen, `control revoke` marks a device.  Each of the three loads the     *)
(* whole file, changes its copy and writes the whole file back; nothing    *)
(* orders the goroutines of serve and the commands of other terminals.     *)
(* secureWrite truncates the file and then writes it.                      *)
(***************************************************************************)
EXTENDS Naturals, FiniteSets

CONSTANTS Procs,     \* request goroutines and commands
          Devices,
          None,
          Torn,      \* a file that does not parse
          MaxCalls, MaxCrashes

ASSUME RegistryAssumption ==
  /\ None \notin Procs \cup Devices
  /\ MaxCalls \in Nat /\ MaxCrashes \in Nat

\* A device that is not in the list, is live or is revoked.  A missing file is
\* the empty list.
Registries == [Devices -> {"absent", "live", "revoked"}]

ASSUME TornIsNoRegistry == Torn \notin Registries

Requests == [kind : {"create", "find", "revoke"}, device : Devices]

VARIABLES
  file,     \* control-devices.json
  writers,  \* processes that truncated the file and have not yet filled it
  mixed,    \* those of them behind whose back another one filled it
  pc, req,
  copy,     \* the list each process has loaded and changed
  paired,   \* history: devices whose pairing was reported
  revoked,  \* history: devices whose revocation was reported
  unseen,   \* history: devices reported after each process loaded its list
  overwritten, \* history: devices over whose report such a list was written
  calls, crashes

history == <<paired, revoked, unseen, overwritten>>
vars == <<file, writers, mixed, pc, req, copy, history, calls, crashes>>

TypeOK ==
  /\ file \in Registries \cup {Torn}
  /\ writers \in SUBSET Procs /\ mixed \in SUBSET writers
  /\ pc \in [Procs -> {"idle", "load", "truncate", "fill"}]
  /\ \A p \in Procs : pc[p] = "fill" <=> p \in writers
  /\ req \in [Procs -> Requests \cup {None}]
  /\ copy \in [Procs -> Registries \cup {None}]
  /\ paired \in SUBSET Devices /\ revoked \in SUBSET Devices
  /\ unseen \in [Procs -> SUBSET Devices] /\ overwritten \in SUBSET Devices
  /\ calls \in 0..MaxCalls /\ crashes \in 0..MaxCrashes

Init ==
  /\ file = [d \in Devices |-> "absent"]
  /\ writers = {} /\ mixed = {}
  /\ pc = [p \in Procs |-> "idle"]
  /\ req = [p \in Procs |-> None]
  /\ copy = [p \in Procs |-> None]
  /\ paired = {} /\ revoked = {}
  /\ unseen = [p \in Procs |-> {}] /\ overwritten = {}
  /\ calls = 0 /\ crashes = 0

Return(p) ==
  /\ pc' = [pc EXCEPT ![p] = "idle"]
  /\ req' = [req EXCEPT ![p] = None]
  /\ copy' = [copy EXCEPT ![p] = None]

\* A process that has a list and has not written it yet.
HasList(q) == pc[q] \in {"truncate", "fill"}

\* The lists of the others are older than what p reports of these devices.
Report(p, devices) ==
  unseen' = [q \in Procs |-> IF q # p /\ HasList(q) THEN unseen[q] \cup devices ELSE {}]

-----------------------------------------------------------------------------
\* createControlDevice draws a new id; a request carries the token of a device
\* that was paired, a revoke names any device.
Call(p) ==
  /\ pc[p] = "idle"
  /\ calls < MaxCalls
  /\ calls' = calls + 1
  /\ \E r \in Requests :
       /\ r.kind = "create" => /\ r.device \notin paired
                               /\ \A q \in Procs : req[q] # r
                               /\ file # Torn => file[r.device] = "absent"
       /\ r.kind = "find" => r.device \in paired
       /\ req' = [req EXCEPT ![p] = r]
       /\ pc' = [pc EXCEPT ![p] = "load"]
  /\ UNCHANGED <<file, writers, mixed, copy, history, crashes>>

\* Mutant: a request of a revoked device pairs it again.
ChangedRevives(r, loaded) ==
  CASE r.kind \in {"create", "find"} -> [loaded EXCEPT ![r.device] = "live"]
    [] r.kind = "revoke" /\ loaded[r.device] = "live" -> [loaded EXCEPT ![r.device] = "revoked"]
    [] OTHER -> None

\* What is written back, given what was loaded; None when nothing is.
\* findControlDeviceByToken skips revoked devices; a device that is already
\* revoked is not saved again.
Changed(r, loaded) ==
  CASE r.kind = "create" -> [loaded EXCEPT ![r.device] = "live"]
    [] r.kind = "find" /\ loaded[r.device] = "live" -> loaded
    [] r.kind = "revoke" /\ loaded[r.device] = "live" -> [loaded EXCEPT ![r.device] = "revoked"]
    [] OTHER -> None

\* Mutant: a list that does not parse counts as an empty one.
LoadForgives(p) ==
  /\ pc[p] = "load"
  /\ LET loaded == IF file = Torn THEN [d \in Devices |-> "absent"] ELSE file
         changed == Changed(req[p], loaded)
     IN  IF changed = None
         THEN Return(p)
         ELSE /\ copy' = [copy EXCEPT ![p] = changed]
              /\ pc' = [pc EXCEPT ![p] = "truncate"]
              /\ UNCHANGED req
  /\ UNCHANGED <<file, writers, mixed, history, calls, crashes>>

\* loadControlDevices, and the change of the copy.  `control revoke` reports a
\* device that is already revoked as well.
Load(p) ==
  /\ pc[p] = "load"
  /\ LET already == req[p].kind = "revoke" /\ file[req[p].device] = "revoked"
         changed == Changed(req[p], file)
     IN  IF file = Torn
         THEN Return(p) /\ UNCHANGED <<revoked, unseen>>
         ELSE \/ /\ changed = None
                 /\ Return(p)
                 /\ LET told == IF already THEN {req[p].device} ELSE {}
                    IN  revoked' = revoked \cup told /\ Report(p, told)
              \/ /\ changed # None
                 /\ copy' = [copy EXCEPT ![p] = changed]
                 /\ pc' = [pc EXCEPT ![p] = "truncate"]
                 /\ UNCHANGED <<req, revoked, unseen>>
  /\ UNCHANGED <<file, writers, mixed, paired, overwritten, calls, crashes>>

\* Mutant: the file is opened without being truncated.
TruncateNot(p) ==
  /\ pc[p] = "truncate"
  /\ pc' = [pc EXCEPT ![p] = "fill"]
  /\ UNCHANGED <<file, writers, mixed, req, copy, history, calls, crashes>>

Truncate(p) ==
  /\ pc[p] = "truncate"
  /\ file' = Torn
  /\ writers' = writers \cup {p}
  /\ mixed' = {}
  /\ pc' = [pc EXCEPT ![p] = "fill"]
  /\ UNCHANGED <<req, copy, history, calls, crashes>>

\* The write starts at offset 0.  What another process wrote after this one
\* truncated stays behind the new content when it was longer.
Fill(p) ==
  /\ pc[p] = "fill"
  /\ \E content \in {copy[p]} \cup (IF p \in mixed THEN {Torn} ELSE {}) : file' = content
  /\ writers' = writers \ {p}
  /\ mixed' = writers \ {p}
  /\ paired' = IF req[p].kind = "create" THEN paired \cup {req[p].device} ELSE paired
  /\ revoked' = IF req[p].kind = "revoke" THEN revoked \cup {req[p].device} ELSE revoked
  /\ Report(p, IF req[p].kind = "find" THEN {} ELSE {req[p].device})
  /\ overwritten' = overwritten \cup unseen[p]
  /\ Return(p)
  /\ UNCHANGED <<calls, crashes>>

Crash(p) ==
  /\ pc[p] # "idle"
  /\ crashes < MaxCrashes
  /\ crashes' = crashes + 1
  /\ Return(p)
  /\ writers' = writers \ {p}
  /\ mixed' = mixed \ {p}
  /\ unseen' = [unseen EXCEPT ![p] = {}]
  /\ UNCHANGED <<file, paired, revoked, overwritten, calls>>

Next == \E p \in Procs : Call(p) \/ Load(p) \/ Truncate(p) \/ Fill(p) \/ Crash(p)

Spec == Init /\ [][Next]_vars

-----------------------------------------------------------------------------
\* A device whose revocation was reported is never live again (cli/README.md:297,
\* USAGE.md:216).
RevokedStaysRevoked == \A d \in revoked : file # Torn => file[d] = "revoked"

\* What the unlocked list does keep, whatever runs at once and crashes.  Only a list
\* that was loaded before a report and is written after it can undo the report: a
\* revoked device is live again, or gone, only after such a write; no request of a
\* device, no pairing, no crash and no torn file brings it back.
RevokedUnlessOverwritten ==
  \A d \in revoked \ overwritten : file # Torn => file[d] = "revoked"

\* A device whose pairing was reported is forgotten only after such a write: a process
\* that dies while it writes the list does not make it an empty one.
PairedUnlessOverwritten ==
  \A d \in paired \ overwritten : file # Torn => file[d] # "absent"

-----------------------------------------------------------------------------
(* The inductive invariant behind the two.                                 *)

\* A process that is inside an operation has a request, and a list once it has
\* loaded one.
CallInv ==
  \A p \in Procs :
    /\ pc[p] # "idle" => req[p] \in Requests
    /\ HasList(p) => copy[p] \in Registries

\* A list that is about to be written has what will be reported.  A device that
\* nobody was told of is in no list but that of the process that creates it, and that
\* is one process.
NewInv ==
  /\ \A p \in Procs : HasList(p) =>
       /\ req[p].kind = "create" => copy[p][req[p].device] # "absent"
       /\ req[p].kind = "revoke" => copy[p][req[p].device] = "revoked"
  /\ revoked \subseteq paired
  /\ \A d \in Devices \ paired : file # Torn => file[d] = "absent"
  /\ \A p \in Procs, d \in Devices \ paired :
       HasList(p) /\ copy[p][d] # "absent" => req[p] = [kind |-> "create", device |-> d]
  /\ \A p \in Procs : pc[p] # "idle" /\ req[p].kind = "create" => req[p].device \notin paired
  /\ \A p, q \in Procs :
       pc[p] # "idle" /\ pc[q] # "idle" /\ req[p].kind = "create" /\ req[p] = req[q] => p = q

\* The list that a process is about to write keeps every report it could have read.
WriteInv(p) ==
  /\ \A d \in revoked \ (overwritten \cup unseen[p]) : copy[p][d] = "revoked"
  /\ \A d \in paired \ (overwritten \cup unseen[p]) : copy[p][d] # "absent"

ReportInv ==
  /\ \A p \in Procs : HasList(p) => WriteInv(p)
  /\ RevokedUnlessOverwritten /\ PairedUnlessOverwritten

RegistryInv == TypeOK /\ CallInv /\ NewInv /\ ReportInv
=============================================================================
