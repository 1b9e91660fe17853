-------------------------------- MODULE Pairing --------------------------------
(***************************************************************************)
(* Pairing codes.  `pair` shows a v3 code and serves its bundle until a    *)
(* phone confirms the import or the code expires; `serve` creates a device *)
(* (DeviceRegistry), shows a v4 code that carries the device's token, and  *)
(* serves it until it ends.  A phone that scans a code downloads the       *)
(* bundle, checks it, saves it as a profile and confirms.  Any number of   *)
(* phones may scan a code, requests and answers get lost, and a phone that *)
(* gave up does not stop the handler of its request.                       *)
(***************************************************************************)
EXTENDS DeviceRegistry

CONSTANTS Phones,
          PairCodes, \* v3 codes; the v4 codes are the devices
          MaxScans

ASSUME PairingAssumption ==
  /\ PairCodes \cap Devices = {} /\ None \notin PairCodes \cup Phones
  /\ MaxScans \in Nat

Codes == PairCodes \cup Devices

VARIABLES
  shown,      \* "no", "yes", then how the command ended: "confirmed" or "ended"
  downloaded, \* codes whose flag downloaded is set
  acked,      \* codes whose acknowledgement the computer has
  writing,    \* handlers that have claimed a bundle and not written it
  phone,      \* what each phone does with which code
  profiles,   \* codes whose bundle each phone has saved
  told,       \* history: phones that were told that the computer knows
  scans

pairingVars == <<shown, downloaded, acked, writing, phone, profiles, told, scans>>
allVars == <<vars, pairingVars>>

Stages == {"idle", "asking", "downloaded", "acknowledging", "acknowledged"}

\* With the type invariant of the registry.
PairingTypeOK ==
  /\ TypeOK
  /\ shown \in [Codes -> {"no", "yes", "confirmed", "ended"}]
  /\ downloaded \subseteq Codes /\ acked \subseteq downloaded
  /\ writing \subseteq [phone : Phones, code : PairCodes]
  /\ \A w \in writing : w.code \in downloaded
  /\ phone \in [Phones -> [stage : Stages, code : Codes \cup {None}]]
  /\ profiles \in [Phones -> SUBSET Codes]
  /\ told \subseteq Phones \X Codes
  /\ scans \in 0..MaxScans

Resting == [stage |-> "idle", code |-> None]

PairingInit ==
  /\ Init
  /\ shown = [c \in Codes |-> "no"]
  /\ downloaded = {} /\ acked = {} /\ writing = {}
  /\ phone = [q \in Phones |-> Resting]
  /\ profiles = [q \in Phones |-> {}]
  /\ told = {} /\ scans = 0

\* Every request is authenticated with the token of a device whose code the phone
\* has imported.
Registry(p) ==
  /\ Call(p) \/ Load(p) \/ Truncate(p) \/ Fill(p) \/ Crash(p)
  /\ req'[p] # None /\ req'[p].kind = "find" => \E q \in Phones : req'[p].device \in profiles[q]
  /\ UNCHANGED pairingVars

-----------------------------------------------------------------------------
(* The computer.                                                           *)

\* `serve` shows the code of the device it has just created.
Show(c) ==
  /\ shown[c] = "no"
  /\ c \in Devices => c \in paired
  /\ shown' = [shown EXCEPT ![c] = "yes"]
  /\ UNCHANGED <<vars, downloaded, acked, writing, phone, profiles, told, scans>>

\* Wait takes the acknowledgement, or the timer, or an error, or it is interrupted;
\* serve ends, whoever has confirmed.
EndCommand(c) ==
  /\ shown[c] = "yes"
  /\ \/ c \in PairCodes /\ c \in acked /\ shown' = [shown EXCEPT ![c] = "confirmed"]
     \/ shown' = [shown EXCEPT ![c] = "ended"]
  /\ UNCHANGED <<vars, downloaded, acked, writing, phone, profiles, told, scans>>

Move(q, stage) == phone' = [phone EXCEPT ![q] = [stage |-> stage, code |-> @.code]]
Rest(q) == phone' = [phone EXCEPT ![q] = Resting]

\* Mutant: the flag is looked at and never set.
ClaimLater(c) == c \notin downloaded /\ UNCHANGED downloaded

\* CompareAndSwap, or the flag under the lock of the control application.
Claim(c) == c \notin downloaded /\ downloaded' = downloaded \cup {c}

\* GET: the bundle of a v4 code is written under the lock, and counts as downloaded
\* also when it is lost.  The phone may have given up before.
Get(q) ==
  LET c == phone[q].code
  IN  /\ phone[q].stage = "asking"
      /\ shown[c] = "yes"
      /\ IF c \in PairCodes
         THEN Claim(c) /\ writing' = writing \cup {[phone |-> q, code |-> c]}
              /\ (UNCHANGED phone \/ Rest(q))
         ELSE Claim(c) /\ UNCHANGED writing /\ (Move(q, "downloaded") \/ Rest(q))
      /\ UNCHANGED <<vars, shown, acked, profiles, told, scans>>

\* A write that fails makes the v3 bundle available again; one that is lost does not.
\* A bundle that fits into the buffers may get lost without an error.
Write(w) ==
  /\ writing' = writing \ {w}
  /\ \/ /\ shown[w.code] = "yes" /\ phone[w.phone] = [stage |-> "asking", code |-> w.code]
        /\ Move(w.phone, "downloaded") /\ UNCHANGED downloaded
     \/ /\ downloaded' \in {downloaded, downloaded \ {w.code}}
        /\ IF phone[w.phone] = [stage |-> "asking", code |-> w.code]
           THEN Rest(w.phone) ELSE UNCHANGED phone
  /\ UNCHANGED <<vars, shown, acked, profiles, told, scans>>

\* POST: 204 when the bundle was downloaded, also if that is not known to the phone:
\* closing the server of `pair` may cut the answer.
Post(q) ==
  LET c == phone[q].code
  IN  /\ phone[q].stage = "acknowledging"
      /\ shown[c] = "yes" /\ c \in downloaded
      /\ acked' = acked \cup {c}
      /\ Move(q, "acknowledged") \/ Rest(q)
      /\ UNCHANGED <<vars, shown, downloaded, writing, profiles, told, scans>>

-----------------------------------------------------------------------------
(* The phones: importPairing.                                              *)

Scan(q) ==
  /\ phone[q].stage = "idle" /\ scans < MaxScans
  /\ scans' = scans + 1
  /\ \E c \in Codes : shown[c] # "no" /\ phone' = [phone EXCEPT ![q] = [stage |-> "asking", code |-> c]]
  /\ UNCHANGED <<vars, shown, downloaded, acked, writing, profiles, told>>

\* Mutant: the import is confirmed before it is saved.
ImportLater(q) ==
  /\ phone[q].stage = "downloaded"
  /\ Move(q, "acknowledging")
  /\ UNCHANGED <<vars, shown, downloaded, acked, writing, told, scans, profiles>>

\* decodeBundle, validate, upsertProfile; then acknowledge.
Import(q) ==
  /\ phone[q].stage = "downloaded"
  /\ profiles' = [profiles EXCEPT ![q] = @ \cup {phone[q].code}]
  /\ Move(q, "acknowledging")
  /\ UNCHANGED <<vars, shown, downloaded, acked, writing, told, scans>>

\* "Imported": the answer 204 has arrived.
Imported(q) ==
  /\ phone[q].stage = "acknowledged"
  /\ told' = told \cup {<<q, phone[q].code>>}
  /\ Rest(q)
  /\ UNCHANGED <<vars, shown, downloaded, acked, writing, profiles, scans>>

\* A refusal, a timeout, a lost connection, an expired certificate, a dead app.
GiveUp(q) ==
  /\ phone[q].stage # "idle"
  /\ Rest(q)
  /\ UNCHANGED <<vars, shown, downloaded, acked, writing, profiles, told, scans>>

-----------------------------------------------------------------------------
PairingNext ==
  \/ \E p \in Procs : Registry(p)
  \/ \E c \in Codes : Show(c) \/ EndCommand(c)
  \/ \E w \in writing : Write(w)
  \/ \E q \in Phones : Get(q) \/ Post(q) \/ Scan(q) \/ Import(q) \/ Imported(q) \/ GiveUp(q)

PairingSpec == PairingInit /\ [][PairingNext]_allVars

-----------------------------------------------------------------------------
\* No two phones import one code, and so none has the token of another one's device
\* (cli/README.md:145: a code is downloaded once), also when a failed download makes
\* it available again.
OneImporter ==
  \A c \in Codes : \A q, r \in Phones : c \in profiles[q] /\ c \in profiles[r] => q = r

\* What the one side reports the other side knows: a code is confirmed on the
\* computer only when a phone has imported it, and a phone that was told so is one
\* whose acknowledgement the computer has, whatever was lost in between.
ReportsAreTrue ==
  /\ \A c \in Codes : c \in acked \/ shown[c] = "confirmed" => \E q \in Phones : c \in profiles[q]
  /\ \A t \in told : t[2] \in acked /\ t[2] \in profiles[t[1]]

-----------------------------------------------------------------------------
(* The inductive invariant behind the two.                                 *)

\* The phone has the bundle of the code.
Holds(q, c) ==
  \/ c \in profiles[q]
  \/ phone[q].code = c /\ phone[q].stage \in {"downloaded", "acknowledging", "acknowledged"}

\* A bundle is claimed by one handler at a time, and never again once a phone has it.
ClaimInv ==
  /\ \A q \in Phones : phone[q].stage # "idle" => phone[q].code \in Codes
  /\ \A c \in Codes : \A q, r \in Phones : Holds(q, c) /\ Holds(r, c) => q = r
  /\ \A c \in Codes : \A q \in Phones : Holds(q, c) => c \in downloaded
  /\ \A w \in writing : \A q \in Phones : ~Holds(q, w.code)
  /\ \A v, w \in writing : v.code = w.code => v = w

\* How far the two sides are with a code.
AckInv ==
  /\ \A q \in Phones :
       /\ phone[q].stage \in {"acknowledging", "acknowledged"} => phone[q].code \in profiles[q]
       /\ phone[q].stage = "acknowledged" => phone[q].code \in acked
  /\ \A c \in Codes : shown[c] = "confirmed" => c \in acked
  /\ ReportsAreTrue

PairingInv == RegistryInv /\ PairingTypeOK /\ ClaimInv /\ AckInv
=============================================================================
