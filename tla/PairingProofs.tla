---------------------------- MODULE PairingProofs ----------------------------
(***************************************************************************)
(* Proofs about Pairing and DeviceRegistry for any number of phones, codes *)
(* and processes: what the device list keeps while its operations overlap  *)
(* and crash, and who has a code while anything may get lost.              *)
(***************************************************************************)
EXTENDS Pairing, TLAPS

-----------------------------------------------------------------------------
(* The device list.                                                        *)

\* What load and change make of a list is a list, or nothing is written.
LEMMA ChangedList ==
  ASSUME NEW r \in Requests, NEW loaded \in Registries
  PROVE  Changed(r, loaded) \in Registries \cup {None}
BY DEF Changed, Registries, Requests

\* A list is no mark for a file that does not parse.
LEMMA ListsParse == Torn \notin Registries
BY TornIsNoRegistry

\* Whoever truncated the file is the one who fills it, with a list.
LEMMA RegistryTypes ==
  ASSUME TypeOK, CallInv, [Next]_vars
  PROVE  TypeOK' /\ CallInv'
<1> USE RegistryAssumption DEF HasList
<1>1. ASSUME NEW p \in Procs, Call(p) PROVE TypeOK' /\ CallInv'
  BY <1>1 DEF Call, TypeOK, CallInv, history
<1>2. ASSUME NEW p \in Procs, Load(p) PROVE TypeOK' /\ CallInv'
  <2>1. req[p] \in Requests /\ req[p].device \in Devices
    BY <1>2 DEF Load, CallInv, Requests
  <2>2. CASE Return(p)
    <3>1. revoked' \in SUBSET Devices /\ unseen' \in [Procs -> SUBSET Devices]
      BY <1>2, <2>1, <2>2 DEF Load, Report, TypeOK
    <3>2. QED
      BY <1>2, <2>2, <3>1 DEF Load, Return, TypeOK, CallInv
  <2>3. CASE file # Torn /\ Changed(req[p], file) # None /\ ~Return(p)
    <3>1. file \in Registries
      BY <2>3 DEF TypeOK
    <3>2. Changed(req[p], file) \in Registries
      BY <2>1, <2>3, <3>1, ChangedList
    <3>3. /\ copy' = [copy EXCEPT ![p] = Changed(req[p], file)]
          /\ pc' = [pc EXCEPT ![p] = "truncate"]
          /\ pc[p] = "load"
          /\ UNCHANGED <<req, file, writers, mixed, history, calls, crashes>>
      BY <1>2, <2>3 DEF Load, history
    <3>4. QED
      BY <2>1, <3>2, <3>3 DEF TypeOK, CallInv, history
  <2>4. QED
    BY <1>2, <2>2, <2>3 DEF Load
<1>3. ASSUME NEW p \in Procs, Truncate(p) PROVE TypeOK' /\ CallInv'
  BY <1>3 DEF Truncate, TypeOK, CallInv, history
<1>4. ASSUME NEW p \in Procs, Fill(p) PROVE TypeOK' /\ CallInv'
  <2>1. copy[p] \in Registries /\ req[p] \in Requests
    BY <1>4 DEF Fill, CallInv
  <2>2. req[p].device \in Devices
    BY <2>1 DEF Requests
  <2>3. unseen' \in [Procs -> SUBSET Devices] /\ overwritten' \in SUBSET Devices
    BY <1>4, <2>2 DEF Fill, Report, TypeOK
  <2>4. QED
    BY <1>4, <2>1, <2>2, <2>3 DEF Fill, Return, TypeOK, CallInv
<1>5. ASSUME NEW p \in Procs, Crash(p) PROVE TypeOK' /\ CallInv'
  BY <1>5 DEF Crash, Return, TypeOK, CallInv
<1>6. ASSUME UNCHANGED vars PROVE TypeOK' /\ CallInv'
  BY <1>6 DEF vars, history, TypeOK, CallInv
<1>7. QED
  BY <1>1, <1>2, <1>3, <1>4, <1>5, <1>6 DEF Next

\* A load changes the list of its process by its own request, or it returns and tells
\* at most of a device that the file has as revoked.
LEMMA LoadOutcome ==
  ASSUME TypeOK, CallInv, NEW p \in Procs, Load(p)
  PROVE  /\ pc[p] = "load" /\ ~HasList(p)
         /\ req[p] \in Requests /\ req[p].device \in Devices
         /\ UNCHANGED <<file, paired, overwritten>>
         /\ \A q \in Procs : q # p => pc'[q] = pc[q] /\ copy'[q] = copy[q] /\ req'[q] = req[q]
         /\ \/ /\ pc'[p] = "idle"
               /\ \/ UNCHANGED <<revoked, unseen>>
                  \/ \E d \in Devices :
                       /\ file # Torn /\ file[d] = "revoked"
                       /\ revoked' = revoked \cup {d} /\ Report(p, {d})
                  \/ UNCHANGED revoked /\ Report(p, {})
            \/ /\ pc'[p] = "truncate" /\ file \in Registries
               /\ UNCHANGED <<req, revoked, unseen>>
               /\ Changed(req[p], file) # None /\ copy'[p] = Changed(req[p], file)
<1>1. pc[p] = "load" /\ ~HasList(p)
  BY DEF Load, HasList
<1>2. req[p] \in Requests /\ req[p].device \in Devices
  BY <1>1 DEF CallInv, Requests
<1>3. CASE file = Torn
  BY <1>1, <1>2, <1>3 DEF Load, Return, TypeOK
<1>4. CASE file # Torn /\ Changed(req[p], file) = None
  <2>1. /\ pc' = [pc EXCEPT ![p] = "idle"] /\ req' = [req EXCEPT ![p] = None]
        /\ copy' = [copy EXCEPT ![p] = None]
        /\ UNCHANGED <<file, paired, overwritten>>
    BY <1>4 DEF Load, Return
  <2>2. CASE req[p].kind = "revoke" /\ file[req[p].device] = "revoked"
    <3>1. revoked' = revoked \cup {req[p].device} /\ Report(p, {req[p].device})
      BY <1>4, <2>2 DEF Load
    <3>2. QED
      BY <1>1, <1>2, <1>4, <2>1, <2>2, <3>1 DEF TypeOK
  <2>3. CASE ~(req[p].kind = "revoke" /\ file[req[p].device] = "revoked")
    <3>1. revoked' = revoked \cup {} /\ Report(p, {})
      BY <1>4, <2>3 DEF Load
    <3>2. QED
      BY <1>1, <1>2, <2>1, <3>1 DEF TypeOK
  <2>4. QED
    BY <2>2, <2>3
<1>5. CASE file # Torn /\ Changed(req[p], file) # None
  <2>1. /\ copy' = [copy EXCEPT ![p] = Changed(req[p], file)]
        /\ pc' = [pc EXCEPT ![p] = "truncate"]
        /\ UNCHANGED <<file, paired, overwritten, req, revoked, unseen>>
    BY <1>5 DEF Load
  <2>2. QED
    BY <1>1, <1>2, <1>5, <2>1 DEF TypeOK
<1>6. QED
  BY <1>3, <1>4, <1>5

\* A device gets into the file, and into the list of another process, only by the
\* write that reports it.
LEMMA NewStep ==
  ASSUME TypeOK, CallInv, NewInv, [Next]_vars
  PROVE  NewInv'
<1>1. ASSUME NEW p \in Procs, Call(p) PROVE NewInv'
  <2>1. /\ pc' = [pc EXCEPT ![p] = "load"] /\ pc[p] = "idle"
        /\ UNCHANGED <<file, copy, paired, revoked>>
    BY <1>1 DEF Call, history
  <2>2. PICK r \in Requests :
          /\ req' = [req EXCEPT ![p] = r]
          /\ r.kind = "create" => r.device \notin paired /\ \A q \in Procs : req[q] # r
    BY <1>1 DEF Call
  <2>3. QED
    BY <2>1, <2>2 DEF NewInv, TypeOK, HasList
<1>2. ASSUME NEW p \in Procs, Load(p) PROVE NewInv'
  <2>1. CASE pc'[p] = "idle"
    <3>1. revoked' \subseteq paired
      <4>1. revoked \subseteq paired /\ UNCHANGED paired
        BY <1>2, LoadOutcome DEF NewInv
      <4>2. \A d \in Devices : file # Torn /\ file[d] = "revoked" => d \in paired
        BY DEF NewInv
      <4>3. revoked' = revoked \/ \E d \in Devices : d \in paired /\ revoked' = revoked \cup {d}
        BY <1>2, <2>1, <4>2, LoadOutcome
      <4>4. QED
        BY <4>1, <4>3
    <3>2. QED
      BY <1>2, <2>1, <3>1, LoadOutcome DEF NewInv, HasList
  <2>2. CASE pc'[p] = "truncate" /\ copy'[p] = Changed(req[p], file) /\ Changed(req[p], file) # None
             /\ file \in Registries /\ UNCHANGED <<req, revoked>>
    <3>1. file # Torn
      BY <2>2, ListsParse
    <3>2. \A d \in Devices \ paired : copy'[p][d] # "absent" => req[p] = [kind |-> "create", device |-> d]
      <4>1. \A d \in Devices \ paired : file[d] = "absent"
        BY <3>1 DEF NewInv
      <4>2. /\ req[p] \in Requests /\ req[p].device \in Devices
            /\ req[p].kind \in {"create", "find", "revoke"}
            /\ req[p] = [kind |-> req[p].kind, device |-> req[p].device]
        BY <1>2, LoadOutcome DEF Requests
      <4>3. QED
        BY <2>2, <4>1, <4>2 DEF Changed, Registries
    <3>3. /\ req[p].kind = "create" => copy'[p][req[p].device] # "absent"
          /\ req[p].kind = "revoke" => copy'[p][req[p].device] = "revoked"
      BY <1>2, <2>2, LoadOutcome DEF Changed, Registries, Requests
    <3>4. QED
      BY <1>2, <2>2, <3>2, <3>3, LoadOutcome DEF NewInv, HasList
  <2>3. QED
    BY <1>2, <2>1, <2>2, LoadOutcome
<1>3. ASSUME NEW p \in Procs, Truncate(p) PROVE NewInv'
  BY <1>3 DEF Truncate, history, NewInv, HasList, TypeOK
<1>4. ASSUME NEW p \in Procs, Fill(p) PROVE NewInv'
  <2>1. /\ req[p] \in Requests /\ req[p].device \in Devices /\ copy[p] \in Registries
        /\ pc[p] = "fill" /\ HasList(p)
    BY <1>4 DEF Fill, CallInv, Requests, HasList
  <2>2. /\ file' \in {copy[p], Torn}
        /\ pc' = [pc EXCEPT ![p] = "idle"] /\ req' = [req EXCEPT ![p] = None]
        /\ copy' = [copy EXCEPT ![p] = None]
        /\ paired' = IF req[p].kind = "create" THEN paired \cup {req[p].device} ELSE paired
        /\ revoked' = IF req[p].kind = "revoke" THEN revoked \cup {req[p].device} ELSE revoked
    BY <1>4 DEF Fill, Return
  <2>3. \A d \in Devices \ paired :
          copy[p][d] # "absent" => req[p].kind = "create" /\ req[p].device = d
    <3>1. SUFFICES ASSUME NEW d \in Devices \ paired, copy[p][d] # "absent"
                   PROVE  req[p].kind = "create" /\ req[p].device = d
      OBVIOUS
    <3>2. req[p] = [kind |-> "create", device |-> d]
      BY <2>1, <3>1 DEF NewInv
    <3>3. QED
      BY <3>2
  <2>4. CASE req[p].kind = "create"
    <3>1. \A d \in Devices \ paired' : file' # Torn => file'[d] = "absent"
      BY <2>1, <2>2, <2>3, <2>4
    <3>2. \A q \in Procs : pc'[q] # "idle" /\ req'[q].kind = "create" => req'[q].device \notin paired'
      <4>1. SUFFICES ASSUME NEW q \in Procs, q # p, pc[q] # "idle", req[q].kind = "create",
                            req[q].device = req[p].device
                     PROVE  FALSE
        BY <2>2, <2>4 DEF NewInv, TypeOK
      <4>2. req[q] \in Requests
        BY <4>1 DEF CallInv
      <4>3. req[q] = req[p]
        BY <2>1, <2>4, <4>1, <4>2 DEF Requests
      <4>4. QED
        BY <2>1, <2>4, <4>1, <4>3 DEF NewInv
    <3>3. QED
      BY <2>1, <2>2, <2>4, <3>1, <3>2 DEF NewInv, HasList, TypeOK
  <2>5. CASE req[p].kind # "create"
    <3>1. \A d \in Devices \ paired : copy[p][d] = "absent"
      BY <2>3, <2>5
    <3>2. req[p].kind = "revoke" => req[p].device \in paired
      BY <2>1, <3>1 DEF NewInv
    <3>3. QED
      BY <2>1, <2>2, <2>5, <3>1, <3>2 DEF NewInv, HasList, TypeOK
  <2>6. QED
    BY <2>4, <2>5
<1>5. ASSUME NEW p \in Procs, Crash(p) PROVE NewInv'
  BY <1>5 DEF Crash, Return, NewInv, HasList, TypeOK
<1>6. ASSUME UNCHANGED vars PROVE NewInv'
  BY <1>6 DEF vars, history, NewInv, HasList
<1>7. QED
  BY <1>1, <1>2, <1>3, <1>4, <1>5, <1>6 DEF Next

\* A report is in every list loaded after it, and a list loaded before it and written
\* after it makes it an overwritten one.
LEMMA ReportStep ==
  ASSUME TypeOK, CallInv, NewInv, ReportInv, [Next]_vars
  PROVE  ReportInv'
<1> USE DEF RevokedUnlessOverwritten, PairedUnlessOverwritten
<1>1. ASSUME NEW p \in Procs, Call(p) PROVE ReportInv'
  BY <1>1 DEF Call, history, TypeOK, ReportInv, WriteInv, HasList
<1>2. ASSUME NEW p \in Procs, Load(p) PROVE ReportInv'
  <2>1. CASE pc'[p] = "idle" /\ UNCHANGED <<revoked, unseen>>
    BY <1>2, <2>1, LoadOutcome DEF ReportInv, WriteInv, HasList
  <2>2. CASE pc'[p] = "idle" /\ UNCHANGED revoked /\ Report(p, {})
    BY <1>2, <2>2, LoadOutcome DEF ReportInv, WriteInv, HasList, Report
  <2>3. ASSUME pc'[p] = "idle",
               NEW d \in Devices, file # Torn, file[d] = "revoked",
               revoked' = revoked \cup {d}, Report(p, {d})
        PROVE  ReportInv'
    <3>1. ASSUME NEW q \in Procs, HasList(q)' PROVE WriteInv(q)'
      BY <1>2, <2>3, <3>1, LoadOutcome DEF ReportInv, WriteInv, HasList, Report
    <3>2. QED
      BY <1>2, <2>3, <3>1, LoadOutcome DEF ReportInv
  <2>4. CASE pc'[p] = "truncate" /\ copy'[p] = Changed(req[p], file) /\ Changed(req[p], file) # None
             /\ file \in Registries /\ UNCHANGED <<req, revoked, unseen>>
    <3>1. /\ \A d \in revoked \ overwritten : file[d] = "revoked"
          /\ \A d \in paired \ overwritten : file[d] # "absent"
      BY <2>4, ListsParse DEF ReportInv
    <3>2. req[p].kind = "create" => req[p].device \notin revoked
      BY <1>2, LoadOutcome DEF NewInv
    <3>3. /\ \A d \in revoked \ overwritten : Changed(req[p], file)[d] = "revoked"
          /\ \A d \in paired \ overwritten : Changed(req[p], file)[d] # "absent"
      <4>1. /\ req[p].device \in Devices /\ req[p].kind \in {"create", "find", "revoke"}
            /\ revoked \subseteq Devices /\ paired \subseteq Devices
        BY <1>2, LoadOutcome DEF TypeOK, Requests
      <4>2. CASE req[p].kind = "create"
        BY <2>4, <3>1, <3>2, <4>1, <4>2 DEF Changed, Registries
      <4>3. CASE req[p].kind = "find"
        BY <2>4, <3>1, <4>1, <4>3 DEF Changed
      <4>4. CASE req[p].kind = "revoke"
        BY <2>4, <3>1, <4>1, <4>4 DEF Changed, Registries
      <4>5. QED
        BY <4>1, <4>2, <4>3, <4>4
    <3>4. WriteInv(p)'
      BY <1>2, <2>4, <3>3, LoadOutcome DEF WriteInv
    <3>5. ASSUME NEW q \in Procs, HasList(q)', q # p PROVE WriteInv(q)'
      BY <1>2, <2>4, <3>5, LoadOutcome DEF ReportInv, WriteInv, HasList
    <3>6. QED
      BY <1>2, <2>4, <3>4, <3>5, LoadOutcome DEF ReportInv
  <2>5. QED
    BY <1>2, <2>1, <2>2, <2>3, <2>4, LoadOutcome
<1>3. ASSUME NEW p \in Procs, Truncate(p) PROVE ReportInv'
  BY <1>3 DEF Truncate, history, ReportInv, WriteInv, HasList, TypeOK
<1>4. ASSUME NEW p \in Procs, Fill(p) PROVE ReportInv'
  <2>1. /\ req[p] \in Requests /\ req[p].device \in Devices /\ HasList(p)
        /\ req[p].kind \in {"create", "find", "revoke"}
    BY <1>4 DEF Fill, CallInv, Requests, HasList
  <2>2. /\ file' \in {copy[p], Torn}
        /\ pc' = [pc EXCEPT ![p] = "idle"]
        /\ copy' = [copy EXCEPT ![p] = None]
        /\ paired' = IF req[p].kind = "create" THEN paired \cup {req[p].device} ELSE paired
        /\ revoked' = IF req[p].kind = "revoke" THEN revoked \cup {req[p].device} ELSE revoked
        /\ Report(p, IF req[p].kind = "find" THEN {} ELSE {req[p].device})
        /\ overwritten' = overwritten \cup unseen[p]
    BY <1>4 DEF Fill, Return
  <2>3. WriteInv(p)
    BY <2>1 DEF ReportInv
  <2>4. RevokedUnlessOverwritten' /\ PairedUnlessOverwritten'
    BY <2>1, <2>2, <2>3 DEF WriteInv, NewInv
  <2>5. ASSUME NEW q \in Procs, HasList(q)' PROVE WriteInv(q)'
    <3>1. q # p /\ HasList(q) /\ copy'[q] = copy[q]
      BY <2>2, <2>5 DEF HasList, TypeOK
    <3>2. /\ unseen'[q] = unseen[q] \cup (IF req[p].kind = "find" THEN {} ELSE {req[p].device})
          /\ WriteInv(q)
      BY <2>2, <3>1 DEF Report, ReportInv
    <3>3. QED
      BY <2>1, <2>2, <3>1, <3>2 DEF WriteInv
  <2>6. QED
    BY <2>4, <2>5 DEF ReportInv
<1>5. ASSUME NEW p \in Procs, Crash(p) PROVE ReportInv'
  BY <1>5 DEF Crash, Return, ReportInv, WriteInv, HasList, TypeOK
<1>6. ASSUME UNCHANGED vars PROVE ReportInv'
  BY <1>6 DEF vars, history, ReportInv, WriteInv, HasList
<1>7. QED
  BY <1>1, <1>2, <1>3, <1>4, <1>5, <1>6 DEF Next

\* Every operation and every crash keeps the invariant of the device list.
LEMMA RegistryStep ==
  ASSUME RegistryInv, [Next]_vars
  PROVE  RegistryInv'
BY RegistryTypes, NewStep, ReportStep DEF RegistryInv

\* An empty list, before any operation.
LEMMA RegistryStart ==
  ASSUME Init
  PROVE  RegistryInv
<1>1. file \in Registries
  BY DEF Init, Registries
<1>2. calls \in 0..MaxCalls /\ crashes \in 0..MaxCrashes
  BY RegistryAssumption DEF Init
<1>3. TypeOK
  BY <1>1, <1>2 DEF Init, TypeOK
<1>4. CallInv
  BY DEF Init, CallInv, HasList
<1>5. NewInv /\ ReportInv
  BY DEF Init, NewInv, ReportInv, HasList, RevokedUnlessOverwritten, PairedUnlessOverwritten
<1>6. QED
  BY <1>3, <1>4, <1>5 DEF RegistryInv

-----------------------------------------------------------------------------
(* Pairing.                                                                *)

\* Pairing never stops or changes an operation on the device list; the registry
\* takes its own steps only.
LEMMA PairingStep ==
  ASSUME PairingNext \/ UNCHANGED allVars
  PROVE  [Next]_vars
BY DEF PairingNext, allVars, Registry, Next, Show, EndCommand, Get, Write, Post, Scan, Import,
   Imported, GiveUp

\* v3 codes, the devices of the v4 codes and None are different things.
LEMMA CodeKinds ==
  /\ None \notin Codes /\ MaxScans \in Nat
  /\ Codes = PairCodes \cup Devices /\ PairCodes \cap Devices = {}
BY PairingAssumption, RegistryAssumption DEF Codes

\* The types of the pairing, apart from those of the device list.
PairingTypes ==
  /\ shown \in [Codes -> {"no", "yes", "confirmed", "ended"}]
  /\ downloaded \subseteq Codes
  /\ writing \subseteq [phone : Phones, code : PairCodes]
  /\ \A w \in writing : w.code \in downloaded
  /\ phone \in [Phones -> [stage : Stages, code : Codes \cup {None}]]
  /\ profiles \in [Phones -> SUBSET Codes]
  /\ told \subseteq Phones \X Codes
  /\ scans \in 0..MaxScans

\* No phone that has the bundle of a code loses the code to another phone: its claim
\* stays set, and only the handler that made the claim can undo it.
LEMMA ClaimStep ==
  ASSUME PairingTypes, ClaimInv, PairingNext \/ UNCHANGED allVars
  PROVE  PairingTypes' /\ ClaimInv'
<1> USE CodeKinds
<1>1. ASSUME UNCHANGED pairingVars PROVE PairingTypes' /\ ClaimInv'
  BY <1>1 DEF pairingVars, PairingTypes, ClaimInv, Holds
<1>2. ASSUME NEW c \in Codes, Show(c) \/ EndCommand(c) PROVE PairingTypes' /\ ClaimInv'
  BY <1>2 DEF Show, EndCommand, PairingTypes, ClaimInv, Holds
<1>3. ASSUME NEW w \in writing, Write(w) PROVE PairingTypes' /\ ClaimInv'
  <2>1. /\ w.phone \in Phones /\ w.code \in PairCodes /\ w.code \in downloaded
        /\ w.code \in Codes
    BY DEF PairingTypes
  <2>2. UNCHANGED <<shown, profiles, told, scans>> /\ writing' = writing \ {w}
    BY <1>3 DEF Write
  <2>3. CASE /\ phone[w.phone] = [stage |-> "asking", code |-> w.code]
             /\ Move(w.phone, "downloaded") /\ UNCHANGED downloaded
    <3>1. phone' = [phone EXCEPT ![w.phone] = [stage |-> "downloaded", code |-> w.code]]
      BY <2>3 DEF Move
    <3>2. PairingTypes'
      BY <2>1, <2>2, <2>3, <3>1 DEF PairingTypes, Stages
    <3>3. ClaimInv'
      BY <2>1, <2>2, <2>3, <3>1 DEF ClaimInv, PairingTypes, Holds
    <3>4. QED
      BY <3>2, <3>3
  <2>4. CASE /\ downloaded' \in {downloaded, downloaded \ {w.code}}
             /\ Rest(w.phone) \/ UNCHANGED phone
    <3>1. PairingTypes'
      BY <2>1, <2>2, <2>4 DEF PairingTypes, ClaimInv, Rest, Resting, Stages
    <3>2. ClaimInv'
      BY <2>1, <2>2, <2>4 DEF ClaimInv, PairingTypes, Holds, Rest, Resting
    <3>3. QED
      BY <3>1, <3>2
  <2>5. QED
    BY <1>3, <2>3, <2>4 DEF Write
<1>4. ASSUME NEW q \in Phones, Get(q) PROVE PairingTypes' /\ ClaimInv'
  <2>1. PICK c \in Codes : phone[q].code = c
    BY <1>4 DEF Get, ClaimInv
  <2>2. /\ phone[q].stage = "asking"
        /\ c \notin downloaded /\ downloaded' = downloaded \cup {c}
        /\ UNCHANGED <<shown, profiles, told, scans>>
    BY <1>4, <2>1 DEF Get, Claim
  <2>3. CASE /\ c \in PairCodes /\ writing' = writing \cup {[phone |-> q, code |-> c]}
             /\ UNCHANGED phone \/ Rest(q)
    <3>1. PairingTypes'
      BY <2>1, <2>2, <2>3 DEF PairingTypes, Rest, Resting, Stages
    <3>2. ClaimInv'
      BY <2>1, <2>2, <2>3 DEF ClaimInv, PairingTypes, Holds, Rest, Resting
    <3>3. QED
      BY <3>1, <3>2
  <2>4. CASE c \notin PairCodes /\ UNCHANGED writing /\ (Move(q, "downloaded") \/ Rest(q))
    <3>1. PairingTypes'
      BY <2>1, <2>2, <2>4 DEF PairingTypes, Move, Rest, Resting, Stages
    <3>2. c \in Codes /\ \A r \in Phones : ~Holds(r, c)
      BY <1>4, <2>1, <2>2 DEF ClaimInv
    <3>3. /\ \A r \in Phones, d \in Codes : Holds(r, d)' => Holds(r, d) \/ (r = q /\ d = c)
          /\ \A r \in Phones : phone'[r].stage # "idle" => phone'[r].code \in Codes
      <4>1. /\ \A r \in Phones : r # q => phone'[r] = phone[r]
            /\ \/ phone'[q].stage = "downloaded" /\ phone'[q].code = c
               \/ phone'[q].stage = "idle"
        BY <2>1, <2>4 DEF PairingTypes, Move, Rest, Resting
      <4>2. QED
        BY <2>2, <3>2, <4>1 DEF ClaimInv, Holds
    <3>4. \A w \in writing : w.code \in Codes /\ w.code # c
      BY <2>2 DEF PairingTypes
    <3>5. ClaimInv'
      BY <2>2, <2>4, <3>2, <3>3, <3>4 DEF ClaimInv
    <3>6. QED
      BY <3>1, <3>5
  <2>5. QED
    BY <1>4, <2>1, <2>3, <2>4 DEF Get
<1>5. ASSUME NEW q \in Phones, Post(q) \/ GiveUp(q) PROVE PairingTypes' /\ ClaimInv'
  <2>1. PairingTypes'
    BY <1>5 DEF Post, GiveUp, Move, Rest, Resting, Stages, PairingTypes
  <2>2. /\ UNCHANGED <<downloaded, writing>>
        /\ \A r \in Phones, c \in Codes : Holds(r, c)' => Holds(r, c)
        /\ \A r \in Phones : phone'[r].stage # "idle" => phone'[r].code \in Codes
    BY <1>5 DEF Post, GiveUp, Move, Rest, Resting, PairingTypes, ClaimInv, Holds
  <2>3. \A w \in writing : w.code \in Codes
    BY DEF PairingTypes
  <2>4. ClaimInv'
    BY <2>2, <2>3 DEF ClaimInv
  <2>5. QED
    BY <2>1, <2>4
<1>6. ASSUME NEW q \in Phones, Scan(q) PROVE PairingTypes' /\ ClaimInv'
  BY <1>6 DEF Scan, Stages, PairingTypes, ClaimInv, Holds
<1>7. ASSUME NEW q \in Phones, Import(q) PROVE PairingTypes' /\ ClaimInv'
  BY <1>7 DEF Import, Move, Stages, PairingTypes, ClaimInv, Holds
<1>8. ASSUME NEW q \in Phones, Imported(q) PROVE PairingTypes' /\ ClaimInv'
  BY <1>8 DEF Imported, Rest, Resting, Stages, PairingTypes, ClaimInv, Holds
<1>9. QED
  BY <1>1, <1>2, <1>3, <1>4, <1>5, <1>6, <1>7, <1>8 DEF PairingNext, Registry, allVars, pairingVars

\* An acknowledgement comes after the import and before anybody reports it.
LEMMA AckStep ==
  ASSUME PairingTypes, ClaimInv, AckInv, PairingNext \/ UNCHANGED allVars
  PROVE  AckInv'
<1> USE CodeKinds DEF ReportsAreTrue
<1>1. ASSUME UNCHANGED pairingVars PROVE AckInv'
  BY <1>1 DEF pairingVars, AckInv
<1>2. ASSUME NEW c \in Codes, Show(c) \/ EndCommand(c) PROVE AckInv'
  BY <1>2 DEF Show, EndCommand, PairingTypes, AckInv
<1>3. ASSUME NEW w \in writing, Write(w) PROVE AckInv'
  <2>1. w.phone \in Phones
    BY DEF PairingTypes
  <2>2. QED
    BY <1>3, <2>1 DEF Write, Move, Rest, Resting, PairingTypes, AckInv
<1>4. ASSUME NEW q \in Phones, Get(q) PROVE AckInv'
  BY <1>4 DEF Get, Move, Rest, Resting, PairingTypes, AckInv
<1>5. ASSUME NEW q \in Phones, Post(q) PROVE AckInv'
  BY <1>5 DEF Post, Move, Rest, Resting, PairingTypes, AckInv
<1>6. ASSUME NEW q \in Phones, Scan(q) \/ GiveUp(q) PROVE AckInv'
  BY <1>6 DEF Scan, GiveUp, Rest, Resting, PairingTypes, AckInv
<1>7. ASSUME NEW q \in Phones, Import(q) PROVE AckInv'
  BY <1>7 DEF Import, Move, PairingTypes, ClaimInv, AckInv
<1>8. ASSUME NEW q \in Phones, Imported(q) PROVE AckInv'
  BY <1>8 DEF Imported, Rest, Resting, PairingTypes, ClaimInv, AckInv
<1>9. QED
  BY <1>1, <1>2, <1>3, <1>4, <1>5, <1>6, <1>7, <1>8 DEF PairingNext, Registry, allVars, pairingVars

\* Only downloaded codes are acknowledged.
LEMMA AckedCodes ==
  ASSUME PairingTypes, ClaimInv, acked \subseteq Codes, PairingNext \/ UNCHANGED allVars
  PROVE  acked' \subseteq Codes
BY DEF PairingNext, Registry, allVars, pairingVars, Show, EndCommand, Get, Write, Post, Scan, Import,
   Imported, GiveUp, PairingTypes

-----------------------------------------------------------------------------
(* The theorems.                                                           *)

\* The device list and the pairing of every code stay as they must be between the
\* steps of any number of processes and phones.
THEOREM PairingInvHolds == PairingSpec => []PairingInv
<1>1. PairingInit => PairingInv
  <2> SUFFICES ASSUME PairingInit PROVE PairingInv
    OBVIOUS
  <2>1. RegistryInv
    BY RegistryStart DEF PairingInit
  <2>2. PairingTypeOK
    BY <2>1, CodeKinds DEF PairingInit, PairingTypeOK, RegistryInv, Resting, Stages
  <2>3. ClaimInv /\ AckInv
    BY DEF PairingInit, ClaimInv, AckInv, ReportsAreTrue, Holds, Resting
  <2>4. QED
    BY <2>1, <2>2, <2>3 DEF PairingInv
<1>2. PairingInv /\ [PairingNext]_allVars => PairingInv'
  <2> SUFFICES ASSUME PairingInv, PairingNext \/ UNCHANGED allVars PROVE PairingInv'
    OBVIOUS
  <2>1. RegistryInv /\ PairingTypes /\ ClaimInv /\ AckInv /\ acked \subseteq Codes
    BY DEF PairingInv, PairingTypeOK, PairingTypes
  <2>2. RegistryInv'
    BY <2>1, PairingStep, RegistryStep
  <2>3. PairingTypes' /\ ClaimInv' /\ AckInv' /\ acked' \subseteq Codes
    BY <2>1, ClaimStep, AckStep, AckedCodes
  <2>4. acked' \subseteq downloaded'
    BY <2>3 DEF PairingTypes, ClaimInv, AckInv, ReportsAreTrue, Holds
  <2>5. QED
    BY <2>2, <2>3, <2>4 DEF PairingInv, RegistryInv, PairingTypeOK, PairingTypes
<1>3. QED
  BY <1>1, <1>2, PTL DEF PairingSpec

\* No two phones import one code, also when failed downloads make it available again
\* (pairing_server.go, control_server.go).
THEOREM OneImporterHolds == PairingSpec => []OneImporter
<1>1. PairingInv => OneImporter
  BY DEF PairingInv, ClaimInv, OneImporter, Holds
<1>2. QED
  BY <1>1, PairingInvHolds, PTL

\* A code is confirmed on the computer only when a phone has imported it, and a phone
\* that reports "imported" is known to the computer.
THEOREM ReportsHold == PairingSpec => []ReportsAreTrue
<1>1. PairingInv => ReportsAreTrue
  BY DEF PairingInv, AckInv
<1>2. QED
  BY <1>1, PairingInvHolds, PTL

\* A revoked device stays revoked, whatever runs at once and crashes, unless a list
\* that was loaded before the revocation was reported is written after it
\* (control_devices.go has no lock; DeviceRegistry_lost shows that write).
THEOREM RevokedHolds == PairingSpec => []RevokedUnlessOverwritten
<1>1. PairingInv => RevokedUnlessOverwritten
  BY DEF PairingInv, RegistryInv, ReportInv
<1>2. QED
  BY <1>1, PairingInvHolds, PTL

\* In the same way no device whose pairing was reported is forgotten, also when a
\* process dies between truncating the list and writing it (secureWrite).
THEOREM PairedHolds == PairingSpec => []PairedUnlessOverwritten
<1>1. PairingInv => PairedUnlessOverwritten
  BY DEF PairingInv, RegistryInv, ReportInv
<1>2. QED
  BY <1>1, PairingInvHolds, PTL

\* The device list on its own: the same invariant for the registry without pairing.
THEOREM RegistryInvHolds == Spec => []RegistryInv
<1>1. Init => RegistryInv
  BY RegistryStart
<1>2. RegistryInv /\ [Next]_vars => RegistryInv'
  BY RegistryStep
<1>3. QED
  BY <1>1, <1>2, PTL DEF Spec
=============================================================================
