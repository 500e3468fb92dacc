---------------------------- MODULE LocalCredential ----------------------------
(***************************************************************************)
(* Where a machine keeps the credential of its device: config.json and,    *)
(* when the desktop has one, the OS vault the file then refers to (agent   *)
(* config.ts, credential-store.ts, commands.ts, pairing.ts).               *)
(*                                                                         *)
(* Nothing locks the two: `agent pair`, `agent run` and `agent             *)
(* revoke-local` are processes that may overlap, each system call of one   *)
(* falling between two of another's, and each may be killed anywhere.      *)
(* Whether a command finds the vault depends on the session it was started *)
(* in.  A credential is named by the device it was issued for.             *)
(***************************************************************************)
EXTENDS Naturals, FiniteSets

CONSTANTS
  MaxCommands,    \* bound: commands run on this machine, numbered as they are started
  MaxDevices,     \* bound: devices this machine is paired as, one after another
  Ref,            \* CREDENTIAL_REF: what the file holds when the vault holds the credential
  NoDevice,
  MaxLocalFaults  \* bound: system calls that fail, commands that are killed

ASSUME LocalAssumption ==
  /\ {MaxCommands, MaxDevices, MaxLocalFaults} \subseteq Nat
  /\ Ref \notin 1..MaxDevices /\ NoDevice \notin (1..MaxDevices) \cup {Ref}

VARIABLES
  file,        \* config.json
  removals,    \* how often it was removed: a handle opened before holds another file
  vault,       \* per vault entry, the device whose credential it holds
  command,     \* the commands
  cleared,     \* the devices whose vault entry a revoke-local deleted
  localFaults  \* how many of the MaxLocalFaults have happened

localVars == <<file, removals, vault, command, cleared, localFaults>>

Commands == 1..MaxCommands
Devices  == 1..MaxDevices

ConfigFile ==
  [kind : {"absent", "torn", "whole"}, device : Devices \cup {NoDevice}, secret : Devices \cup {Ref, NoDevice}]

Blank(kind) == [kind |-> kind, device |-> NoDevice, secret |-> NoDevice]

Saving   == {"vault", "open", "write", "check"}
UnderWay == Saving \cup {"lookup", "running", "drop", "remove"}

Command ==
  [kind    : {"none", "pair", "run", "revoke"},
   at      : UnderWay \cup {"idle", "done", "failed", "dead"},
   native  : BOOLEAN,                     \* createNativeCredentialStore found a vault
   device  : Devices \cup {NoDevice},     \* the configuration it holds
   secret  : Devices \cup {NoDevice},
   handle  : Nat,                         \* the file it opened, by removals
   learned : BOOLEAN,                     \* a run that has persisted the key of a welcome
   alone   : BOOLEAN]                     \* no other command took a step since it started

LocalInit ==
  /\ file = Blank("absent")
  /\ removals = 0
  /\ vault = [d \in Devices |-> NoDevice]
  /\ command = [c \in Commands |-> [kind |-> "none", at |-> "idle", native |-> FALSE, device |-> NoDevice,
                                    secret |-> NoDevice, handle |-> 0, learned |-> FALSE, alone |-> TRUE]]
  /\ cleared = {}
  /\ localFaults = 0

-----------------------------------------------------------------------------
LocalFault == localFaults < MaxLocalFaults /\ localFaults' = localFaults + 1

\* c goes on as `next`; every other command under way is no longer alone.
Turn(c, next) ==
  command' = [q \in Commands |-> IF q = c THEN next ELSE [command[q] EXCEPT !.alone = @ /\ command[q].at \notin UnderWay]]

Goes(c, at) == Turn(c, [command[c] EXCEPT !.at = at])

\* Mutant: the attributes name the service only.
OneSlot(d) == 1

\* The vault entry of a device: secret-tool's attributes name service and device.
Slot(d) == d

\* A save that returned or threw: a run goes on either way, with the key in memory.
AfterSave(c, outcome) == IF command[c].kind = "run" THEN "running" ELSE outcome

\* Where saveConfig starts.
FirstStep(native) == IF native THEN "vault" ELSE "open"

-----------------------------------------------------------------------------
(***************************************************************************)
(* saveConfig: the vault first, then the file, which is truncated, written *)
(* and inspected.                                                          *)
(***************************************************************************)
StoreSecret(c) ==
  /\ command[c].at = "vault"
  /\ vault' = [vault EXCEPT ![Slot(command[c].device)] = command[c].secret]
  /\ Goes(c, "open")
  /\ UNCHANGED <<file, removals, cleared, localFaults>>

\* secret-tool fails or is killed at its time limit, with the entry stored or not.
StoreSecretFails(c) ==
  /\ LocalFault
  /\ command[c].at = "vault"
  /\ vault' \in {vault, [vault EXCEPT ![Slot(command[c].device)] = command[c].secret]}
  /\ Goes(c, AfterSave(c, "failed"))
  /\ UNCHANGED <<file, removals, cleared>>

OpenFile(c) ==
  /\ command[c].at = "open"
  /\ file' = Blank("torn")
  /\ Turn(c, [command[c] EXCEPT !.at = "write", !.handle = removals])
  /\ UNCHANGED <<removals, vault, cleared, localFaults>>

Written(c) ==
  [kind |-> "whole", device |-> command[c].device, secret |-> IF command[c].native THEN Ref ELSE command[c].secret]

\* Over what another command wrote since the truncation, a shorter text leaves its tail.
WriteFile(c) ==
  /\ command[c].at = "write"
  /\ \/ /\ command[c].handle = removals
        /\ file' \in {Written(c)} \cup (IF file.kind = "whole" THEN {Blank("torn")} ELSE {})
     \/ command[c].handle # removals /\ UNCHANGED file      \* into a removed file
  /\ Goes(c, "check")
  /\ UNCHANGED <<removals, vault, cleared, localFaults>>

\* chmod and assertPrivatePath.
CheckFile(c) ==
  /\ command[c].at = "check"
  /\ Goes(c, AfterSave(c, IF file.kind = "absent" THEN "failed" ELSE "done"))
  /\ UNCHANGED <<file, removals, vault, cleared, localFaults>>

SaveFails(c) ==
  /\ LocalFault
  /\ command[c].at \in {"open", "write", "check"}
  /\ Goes(c, AfterSave(c, "failed"))
  /\ UNCHANGED <<file, removals, vault, cleared>>

-----------------------------------------------------------------------------
Started(c, kind, native, at, device, secret) ==
  /\ command[c].at = "idle" /\ \A q \in 1..c - 1 : command[q].at # "idle"
  /\ Turn(c, [command[c] EXCEPT !.kind = kind, !.native = native, !.at = at, !.device = device, !.secret = secret])

\* pairCommand, from the claim that was granted on.
Pair(c, native) ==
  LET d == Cardinality({q \in Commands : command[q].kind = "pair"}) + 1 IN
  /\ d \in Devices
  /\ Started(c, "pair", native, FirstStep(native), d, d)
  /\ UNCHANGED <<file, removals, vault, cleared, localFaults>>

\* runCommand: loadConfig reads the file once; what follows uses that snapshot.
RunAgent(c, native) ==
  /\ \/ file.kind # "whole" /\ Started(c, "run", native, "failed", NoDevice, NoDevice)
     \/ file.kind = "whole" /\ file.secret # Ref /\ Started(c, "run", native, "running", file.device, file.secret)
     \/ /\ file.kind = "whole" /\ file.secret = Ref
        /\ Started(c, "run", native, IF native THEN "lookup" ELSE "failed", file.device, NoDevice)
  /\ UNCHANGED <<file, removals, vault, cleared, localFaults>>

LookUp(c) ==
  LET found == vault[Slot(command[c].device)] IN
  /\ command[c].at = "lookup"
  /\ Turn(c, [command[c] EXCEPT !.at = IF found = NoDevice THEN "failed" ELSE "running", !.secret = found])
  /\ UNCHANGED <<file, removals, vault, cleared, localFaults>>

\* A welcome taught the run a key: the snapshot it loaded is saved again with it.
Persist(c) ==
  /\ command[c].at = "running" /\ ~command[c].learned
  /\ Turn(c, [command[c] EXCEPT !.at = FirstStep(command[c].native), !.learned = TRUE])
  /\ UNCHANGED <<file, removals, vault, cleared, localFaults>>

-----------------------------------------------------------------------------
(***************************************************************************)
(* revokeLocalCommand, deleteConfig: the vault entry first, then the file. *)
(***************************************************************************)
RevokeLocal(c, native) ==
  /\ \/ file.kind = "absent" /\ Started(c, "revoke", native, "done", NoDevice, NoDevice)
     \/ file.kind = "torn" /\ Started(c, "revoke", native, "failed", NoDevice, NoDevice)
     \/ /\ file.kind = "whole"
        /\ Started(c, "revoke", native,
             IF native THEN "drop" ELSE IF file.secret = Ref THEN "failed" ELSE "remove", file.device, NoDevice)
  /\ UNCHANGED <<file, removals, vault, cleared, localFaults>>

Dropped(c) == [vault EXCEPT ![Slot(command[c].device)] = NoDevice]

DropSecret(c) ==
  /\ command[c].at = "drop"
  /\ vault' = Dropped(c)
  /\ cleared' = cleared \cup {command[c].device}
  /\ Goes(c, "remove")
  /\ UNCHANGED <<file, removals, localFaults>>

DropFails(c) ==
  /\ LocalFault
  /\ command[c].at = "drop"
  /\ vault' \in {vault, Dropped(c)}
  /\ cleared' = cleared \cup {command[c].device}
  /\ Goes(c, "failed")
  /\ UNCHANGED <<file, removals>>

RemoveFile(c) ==
  /\ command[c].at = "remove"
  /\ file' = Blank("absent")
  /\ removals' = removals + IF file.kind = "absent" THEN 0 ELSE 1
  /\ Goes(c, "done")
  /\ UNCHANGED <<vault, cleared, localFaults>>

Killed(c) ==
  /\ LocalFault
  /\ command[c].at \in UnderWay
  /\ Goes(c, "dead")
  /\ UNCHANGED <<file, removals, vault, cleared>>

LocalNext ==
  \E c \in Commands :
    \/ \E native \in BOOLEAN : Pair(c, native) \/ RunAgent(c, native) \/ RevokeLocal(c, native)
    \/ StoreSecret(c) \/ StoreSecretFails(c) \/ OpenFile(c) \/ WriteFile(c) \/ CheckFile(c) \/ SaveFails(c)
    \/ LookUp(c) \/ Persist(c)
    \/ DropSecret(c) \/ DropFails(c) \/ RemoveFile(c)
    \/ Killed(c)

LocalSpec == LocalInit /\ [][LocalNext]_localVars

-----------------------------------------------------------------------------
LocalTypeOK ==
  /\ file \in ConfigFile /\ removals \in Nat
  /\ vault \in [Devices -> Devices \cup {NoDevice}]
  /\ command \in [Commands -> Command]
  /\ cleared \subseteq Devices /\ localFaults \in 0..MaxLocalFaults

\* A running agent authenticates with the credential of its own device, whatever
\* pairings, deletions and kills went over the file and the vault.
OwnCredential ==
  /\ file.kind = "whole" => file.secret \in {file.device, Ref}
  /\ \A c \in Commands : command[c].at = "running" => command[c].secret = command[c].device

\* A credential leaves the file only for a vault that has it: a reference can be
\* followed unless a revoke-local removed what it names.
ReferenceHolds ==
  file.kind = "whole" /\ file.secret = Ref /\ file.device \notin cleared => vault[Slot(file.device)] = file.device

\* What the next command would load, under the same session.
Loads(c, device) == file.device = device /\ (file.secret = Ref => command[c].native /\ vault[Slot(device)] = device)

\* A command no other overlapped did what it reports: after `pair` the device can
\* be loaded, after `revoke-local` neither the file nor, where it is within reach,
\* the vault has the credential.
EndsAsTold ==
  \A c \in Commands :
    command[c].at \in UnderWay /\ command'[c].at = "done" /\ command'[c].alone =>
      \/ command[c].kind = "pair" /\ Loads(c, command[c].device)'
      \/ command[c].kind = "revoke" /\ file'.kind = "absent" /\ (command[c].native => vault'[Slot(command[c].device)] = NoDevice)

\* The three together.
LocalSound == [](OwnCredential /\ ReferenceHolds) /\ [][EndsAsTold]_localVars

-----------------------------------------------------------------------------
(* What a comment says and the code does not keep.                         *)

\* revoke-local "forgets the credential on THIS machine" (commands.ts, line 97):
\* once it has reported so, no file of that device is on the machine again.  The
\* persist of a running agent writes back the configuration it read at its start.
ForgottenStaysForgotten ==
  \A c \in Commands :
    command[c].kind = "revoke" /\ command[c].at = "done" /\ command[c].device # NoDevice =>
      ~(file.kind = "whole" /\ file.device = command[c].device)

=============================================================================
